---- MODULE Spec2Model ----
(***************************************************************************)
(* Model of the Sudoku solvers of this repository.                         *)
(*                                                                         *)
(* Encoding.  A character of ALLOWED_NUMBERS ('1'..'9') is the digit it    *)
(* shows, the blank marker '0' is 0.  A row letter 'A'..'I' is its index   *)
(* 1..9 in ROWS.  A square label r + c (row letter, column digit) is the   *)
(* number 9 * (r - 1) + c, so that the order of labels as Python strings   *)
(* ('A1' < 'A2' < ... < 'I9') is the order of the numbers 1..81.           *)
(* A Python string is a sequence of characters, a list a sequence, a dict  *)
(* keyed by squares a function on the squares.  The value False returned   *)
(* in place of a board is the boolean FALSE.                               *)
(***************************************************************************)
EXTENDS Integers, Sequences, FiniteSets, TLC

----------------------------------------------------------------------------
(* Generic helpers for Python sequences *)

\* x in seq
Contains(seq, x) == \E i \in 1..Len(seq) : seq[i] = x

\* str.replace(value, ''): every occurrence of the character is dropped
Replace(str, value) == SelectSeq(str, LAMBDA ch : ch # value)

\* set(seq)
SeqToSet(seq) == {seq[i] : i \in 1..Len(seq)}

\* A dict keyed by the squares, built once: the function as a table of its
\* values (the squares are 1..81, so the table is a tuple)
Table(f) == f \o <<>>

\* sum(list_of_lists, [])
RECURSIVE SumLists(_)
SumLists(ls) == IF ls = <<>> THEN <<>> ELSE Head(ls) \o SumLists(Tail(ls))

----------------------------------------------------------------------------
(* SudokuSolver.__init__ : the static topology *)

ALLOWED_NUMBERS == <<1, 2, 3, 4, 5, 6, 7, 8, 9>>
ROWS == <<1, 2, 3, 4, 5, 6, 7, 8, 9>>
COLS == ALLOWED_NUMBERS

\* the label r + c
Sq(r, c) == 9 * (r - 1) + c

\* [r + c for r in rs for c in cs]
Cross(rs, cs) == [k \in 1..(Len(rs) * Len(cs)) |->
                    Sq(rs[((k - 1) \div Len(cs)) + 1], cs[((k - 1) % Len(cs)) + 1])] \o <<>>

\* [r + c for r in ROWS for c in COLS]
squares == Cross(ROWS, COLS)


row_units == [i \in 1..Len(ROWS) |-> Cross(<<ROWS[i]>>, COLS)]
col_units == [j \in 1..Len(COLS) |-> Cross(ROWS, <<COLS[j]>>)]
RowBands == <<SubSeq(ROWS, 1, 3), SubSeq(ROWS, 4, 6), SubSeq(ROWS, 7, 9)>>
ColBands == <<SubSeq(COLS, 1, 3), SubSeq(COLS, 4, 6), SubSeq(COLS, 7, 9)>>
box_units == [k \in 1..(Len(RowBands) * Len(ColBands)) |->
                Cross(RowBands[((k - 1) \div Len(ColBands)) + 1],
                      ColBands[((k - 1) % Len(ColBands)) + 1])]

\* (mutant) the boxes are left out of the unit list
unit_list_no_boxes == row_units \o col_units

unit_list == row_units \o col_units \o box_units

\* {s: [u for u in unit_list if s in u] for s in self.squares}
UnitsOf(s) == SelectSeq(unit_list, LAMBDA u : Contains(u, s))
units == Table([s \in SeqToSet(squares) |-> UnitsOf(s)])

\* (mutant) the square itself is not taken out of its peers
PeersOfWithSelf(s) == SeqToSet(SumLists(units[s]))

\* {s: set(sum(self.units[s], [])) - {s} for s in self.squares}
PeersOf(s) == SeqToSet(SumLists(units[s])) \ {s}
peers == Table([s \in SeqToSet(squares) |-> PeersOf(s)])

\* sudoku_cp, the module-level topology: generate_list(A, B) is
\* [a + b for a in A for b in B]
generate_list(A, B) == Cross(A, B)
SQUARES == generate_list(ROWS, COLS)
UNIT_LIST ==
    [j \in 1..Len(COLS) |-> generate_list(ROWS, <<COLS[j]>>)] \o
    [i \in 1..Len(ROWS) |-> generate_list(<<ROWS[i]>>, COLS)] \o
    [k \in 1..(Len(RowBands) * Len(ColBands)) |->
        generate_list(RowBands[((k - 1) \div Len(ColBands)) + 1],
                      ColBands[((k - 1) % Len(ColBands)) + 1])]
\* dict((s, [u for u in UNIT_LIST if s in u]) for s in SQUARES)
UNITS == Table([s \in SeqToSet(SQUARES) |-> SelectSeq(UNIT_LIST, LAMBDA u : Contains(u, s))])
\* dict((s, set(sum(UNITS[s], [])) - set([s])) for s in SQUARES)
PEERS == Table([s \in SeqToSet(SQUARES) |-> SeqToSet(SumLists(UNITS[s])) \ {s}])

\* The order in which CPython iterates over the set self.peers[s].  A set of str
\* has no defined iteration order: it follows the string hash of the process
\* and the way the set was built.  The tables are the orders of the sets as
\* SudokuSolver._generate_peers builds them, read off
\* list(SudokuSolver().peers[s]) for the 81 squares in the order of squares,
\* one table for each of PYTHONHASHSEED = 0, 1, 2, 3 (CPython 3.11).
peers_iteration == <<
    << \* PYTHONHASHSEED=0
       <<4, 6, 9, 64, 46, 8, 28, 12, 20, 11, 10, 19, 73, 21, 3, 2, 55, 7, 37, 5>>,
       <<4, 6, 9, 29, 8, 56, 12, 20, 11, 10, 19, 47, 21, 1, 65, 3, 7, 38, 5, 74>>,
       <<4, 6, 9, 8, 30, 12, 20, 11, 10, 19, 66, 21, 1, 75, 2, 39, 48, 7, 5, 57>>,
       <<6, 9, 8, 24, 76, 23, 58, 31, 49, 1, 67, 3, 14, 2, 7, 40, 22, 13, 15, 5>>,
       <<4, 6, 41, 9, 59, 8, 24, 23, 32, 50, 68, 1, 3, 14, 2, 77, 7, 22, 13, 15>>,
       <<69, 4, 33, 9, 8, 24, 23, 42, 1, 3, 60, 14, 2, 51, 7, 22, 13, 15, 5, 78>>,
       <<4, 25, 6, 9, 8, 70, 34, 52, 1, 3, 2, 79, 17, 26, 61, 43, 5, 27, 18, 16>>,
       <<4, 25, 6, 9, 35, 80, 62, 1, 53, 3, 2, 17, 7, 26, 44, 71, 5, 27, 18, 16>>,
       <<4, 25, 6, 54, 45, 8, 81, 72, 63, 1, 3, 2, 27, 17, 7, 26, 5, 36, 18, 16>>,
       <<64, 46, 28, 12, 20, 19, 73, 21, 1, 3, 14, 2, 55, 17, 37, 13, 15, 11, 18, 16>>,
       <<29, 56, 12, 20, 10, 19, 47, 21, 1, 65, 3, 14, 2, 17, 13, 15, 38, 74, 18, 16>>,
       <<30, 20, 10, 19, 66, 21, 75, 1, 3, 14, 2, 39, 48, 17, 13, 15, 11, 57, 18, 16>>,
       <<4, 6, 24, 76, 12, 23, 11, 10, 58, 31, 49, 67, 14, 17, 40, 22, 15, 5, 18, 16>>,
       <<4, 41, 6, 59, 24, 12, 32, 23, 11, 10, 50, 68, 77, 17, 22, 13, 15, 5, 18, 16>>,
       <<69, 4, 6, 33, 24, 12, 23, 11, 10, 42, 60, 14, 51, 17, 22, 13, 5, 78, 18, 16>>,
       <<25, 9, 8, 70, 12, 34, 10, 52, 14, 79, 17, 7, 26, 61, 13, 15, 43, 11, 27, 18>>,
       <<25, 9, 35, 8, 12, 10, 80, 62, 53, 14, 26, 7, 44, 71, 13, 15, 11, 27, 18, 16>>,
       <<25, 9, 54, 45, 8, 81, 12, 10, 72, 63, 14, 27, 17, 7, 26, 13, 15, 11, 36, 16>>,
       <<25, 64, 46, 24, 28, 23, 12, 20, 10, 73, 21, 1, 3, 2, 55, 26, 37, 22, 11, 27>>,
       <<25, 74, 56, 24, 23, 12, 19, 10, 47, 21, 1, 65, 3, 2, 27, 26, 22, 38, 11, 29>>,
       <<25, 24, 30, 23, 20, 12, 19, 10, 66, 75, 1, 3, 2, 39, 48, 26, 22, 11, 27, 57>>,
       <<25, 4, 6, 24, 76, 23, 20, 19, 58, 31, 49, 21, 67, 14, 26, 40, 13, 15, 5, 27>>,
       <<25, 4, 41, 6, 59, 24, 32, 20, 19, 50, 68, 21, 14, 77, 26, 22, 13, 15, 5, 27>>,
       <<69, 25, 4, 6, 33, 23, 20, 19, 42, 21, 60, 14, 51, 26, 22, 13, 15, 5, 27, 78>>,
       <<9, 8, 24, 70, 23, 34, 20, 19, 52, 21, 79, 17, 26, 7, 61, 22, 43, 27, 18, 16>>,
       <<25, 9, 35, 8, 24, 23, 20, 19, 80, 62, 21, 53, 17, 7, 22, 44, 71, 27, 18, 16>>,
       <<25, 9, 54, 45, 8, 24, 81, 23, 20, 19, 72, 21, 63, 17, 26, 7, 22, 36, 18, 16>>,
       <<33, 29, 64, 35, 46, 30, 32, 34, 10, 19, 73, 47, 31, 1, 39, 55, 48, 37, 38, 36>>,
       <<33, 35, 46, 56, 28, 30, 32, 20, 36, 34, 47, 31, 65, 2, 39, 48, 37, 38, 11, 74>>,
       <<33, 29, 35, 46, 28, 32, 34, 12, 47, 31, 66, 21, 75, 3, 39, 48, 37, 38, 36, 57>>,
       <<4, 33, 41, 29, 35, 28, 76, 30, 32, 34, 42, 58, 50, 49, 67, 51, 40, 22, 13, 36>>,
       <<33, 41, 29, 35, 59, 28, 30, 34, 23, 42, 50, 31, 68, 49, 14, 77, 51, 40, 5, 36>>,
       <<69, 6, 41, 29, 35, 28, 24, 30, 32, 34, 42, 50, 31, 49, 60, 51, 40, 15, 36, 78>>,
       <<25, 33, 54, 29, 35, 45, 28, 70, 30, 32, 52, 31, 53, 79, 7, 61, 44, 43, 36, 16>>,
       <<33, 54, 29, 45, 8, 28, 30, 32, 34, 80, 52, 62, 31, 53, 17, 26, 44, 71, 43, 36>>,
       <<33, 9, 54, 29, 35, 45, 28, 81, 30, 32, 34, 72, 52, 31, 63, 53, 44, 43, 27, 18>>,
       <<41, 43, 64, 45, 46, 28, 30, 10, 19, 73, 47, 42, 1, 39, 55, 48, 40, 44, 38, 29>>,
       <<41, 43, 29, 45, 46, 56, 28, 30, 20, 47, 42, 65, 2, 39, 48, 40, 37, 44, 11, 74>>,
       <<41, 43, 45, 46, 28, 30, 12, 47, 42, 66, 21, 75, 3, 48, 40, 37, 44, 38, 29, 57>>,
       <<4, 41, 33, 43, 45, 76, 32, 42, 58, 50, 31, 49, 67, 39, 51, 37, 44, 22, 13, 38>>,
       <<33, 43, 59, 45, 23, 32, 42, 50, 31, 68, 49, 14, 39, 77, 51, 40, 37, 44, 38, 5>>,
       <<69, 41, 6, 33, 43, 45, 24, 32, 50, 31, 49, 60, 39, 51, 40, 37, 44, 15, 38, 78>>,
       <<25, 41, 54, 35, 45, 70, 34, 42, 52, 53, 39, 79, 40, 7, 61, 44, 37, 38, 36, 16>>,
       <<41, 43, 54, 35, 45, 8, 34, 80, 42, 52, 62, 53, 39, 17, 40, 26, 37, 71, 38, 36>>,
       <<41, 9, 54, 43, 35, 81, 34, 72, 42, 52, 63, 53, 39, 27, 40, 37, 44, 38, 36, 18>>,
       <<54, 64, 28, 30, 10, 19, 73, 47, 52, 50, 49, 1, 53, 39, 51, 55, 48, 37, 38, 29>>,
       <<54, 74, 46, 56, 28, 30, 20, 52, 50, 49, 65, 53, 2, 39, 51, 48, 37, 38, 11, 29>>,
       <<54, 46, 28, 30, 12, 47, 52, 50, 66, 49, 21, 75, 53, 3, 39, 51, 37, 38, 29, 57>>,
       <<4, 33, 41, 54, 46, 76, 32, 47, 52, 58, 50, 42, 31, 67, 53, 51, 48, 40, 22, 13>>,
       <<41, 33, 54, 59, 46, 23, 32, 47, 52, 42, 31, 68, 49, 53, 14, 77, 51, 48, 40, 5>>,
       <<69, 6, 33, 41, 54, 46, 24, 32, 47, 42, 52, 50, 31, 49, 53, 60, 48, 40, 15, 78>>,
       <<25, 54, 35, 45, 46, 70, 34, 47, 50, 49, 53, 51, 79, 48, 7, 61, 44, 43, 36, 16>>,
       <<54, 35, 45, 46, 8, 34, 47, 80, 52, 50, 62, 49, 51, 48, 17, 26, 44, 71, 43, 36>>,
       <<9, 35, 45, 46, 81, 34, 36, 47, 72, 52, 50, 49, 63, 53, 51, 48, 44, 43, 27, 18>>,
       <<64, 59, 46, 56, 28, 10, 19, 73, 58, 62, 66, 63, 1, 75, 65, 60, 61, 37, 74, 57>>,
       <<29, 64, 59, 20, 47, 73, 58, 62, 66, 63, 75, 65, 60, 2, 55, 61, 38, 11, 74, 57>>,
       <<64, 59, 56, 30, 12, 73, 58, 62, 66, 21, 63, 75, 65, 3, 60, 39, 55, 48, 61, 74>>,
       <<69, 4, 59, 56, 76, 62, 31, 68, 49, 63, 67, 60, 77, 55, 40, 61, 22, 13, 78, 57>>,
       <<69, 41, 56, 76, 23, 32, 58, 50, 62, 68, 63, 67, 60, 14, 77, 55, 61, 5, 78, 57>>,
       <<69, 6, 33, 59, 56, 24, 76, 42, 58, 62, 68, 63, 67, 77, 51, 55, 61, 15, 78, 57>>,
       <<25, 59, 56, 70, 81, 34, 80, 72, 58, 52, 62, 63, 60, 79, 55, 7, 71, 43, 57, 16>>,
       <<35, 59, 8, 56, 70, 81, 80, 72, 58, 63, 53, 60, 79, 55, 17, 26, 61, 44, 71, 57>>,
       <<9, 54, 59, 45, 56, 81, 70, 80, 72, 58, 62, 60, 79, 55, 27, 61, 71, 36, 57, 18>>,
       <<69, 46, 56, 28, 70, 10, 19, 73, 72, 66, 68, 67, 1, 75, 65, 55, 37, 71, 74, 57>>,
       <<69, 29, 64, 56, 70, 20, 47, 73, 72, 66, 68, 67, 75, 2, 55, 71, 38, 11, 74, 57>>,
       <<69, 64, 56, 70, 30, 12, 73, 72, 68, 21, 67, 75, 65, 3, 39, 55, 48, 71, 74, 57>>,
       <<69, 4, 64, 59, 70, 76, 72, 58, 31, 49, 66, 68, 65, 60, 77, 40, 22, 71, 13, 78>>,
       <<69, 41, 64, 59, 70, 76, 32, 23, 72, 58, 50, 66, 67, 65, 60, 14, 77, 71, 5, 78>>,
       <<6, 33, 64, 59, 24, 70, 76, 42, 58, 72, 66, 68, 67, 65, 60, 77, 51, 71, 15, 78>>,
       <<69, 25, 64, 81, 34, 80, 72, 52, 62, 66, 68, 63, 67, 65, 79, 7, 61, 71, 43, 16>>,
       <<69, 64, 35, 8, 70, 81, 80, 72, 62, 66, 68, 63, 67, 65, 53, 79, 17, 26, 61, 44>>,
       <<69, 9, 54, 64, 45, 70, 81, 80, 62, 66, 68, 63, 67, 65, 79, 27, 61, 71, 36, 18>>,
       <<64, 46, 56, 28, 76, 81, 10, 19, 80, 66, 75, 1, 65, 77, 79, 55, 37, 74, 78, 57>>,
       <<64, 56, 76, 81, 20, 47, 73, 80, 66, 75, 65, 2, 77, 79, 55, 38, 11, 29, 78, 57>>,
       <<64, 56, 76, 81, 30, 12, 73, 80, 66, 21, 65, 3, 39, 77, 79, 55, 48, 74, 78, 57>>,
       <<69, 4, 59, 81, 73, 80, 58, 31, 49, 68, 75, 67, 60, 77, 79, 40, 22, 13, 74, 78>>,
       <<69, 41, 59, 76, 81, 32, 23, 73, 80, 58, 50, 68, 75, 67, 60, 14, 79, 5, 74, 78>>,
       <<69, 6, 33, 59, 24, 76, 81, 73, 80, 42, 58, 68, 75, 67, 60, 77, 79, 51, 15, 74>>,
       <<25, 76, 81, 70, 34, 73, 80, 52, 72, 62, 63, 75, 77, 7, 61, 71, 43, 74, 78, 16>>,
       <<35, 8, 76, 81, 70, 73, 72, 62, 63, 75, 53, 77, 79, 17, 26, 61, 44, 71, 74, 78>>,
       <<9, 54, 45, 76, 70, 36, 73, 80, 72, 62, 63, 75, 77, 79, 27, 61, 71, 74, 78, 18>>
    >>,
    << \* PYTHONHASHSEED=1
       <<64, 20, 3, 11, 46, 10, 19, 6, 4, 9, 5, 8, 2, 12, 21, 55, 73, 28, 37, 7>>,
       <<74, 65, 1, 56, 20, 3, 10, 19, 29, 6, 4, 9, 5, 8, 12, 38, 21, 11, 7, 47>>,
       <<30, 66, 1, 48, 20, 10, 19, 39, 75, 6, 4, 9, 5, 8, 2, 12, 21, 57, 11, 7>>,
       <<1, 22, 13, 3, 6, 9, 5, 8, 76, 67, 31, 14, 40, 2, 49, 58, 15, 23, 7, 24>>,
       <<1, 22, 13, 68, 3, 6, 32, 4, 59, 9, 77, 8, 14, 50, 2, 7, 15, 23, 41, 24>>,
       <<1, 22, 13, 3, 60, 42, 4, 9, 5, 8, 51, 14, 2, 78, 33, 15, 69, 23, 7, 24>>,
       <<18, 1, 27, 26, 17, 3, 6, 4, 9, 61, 5, 52, 8, 70, 2, 25, 79, 34, 43, 16>>,
       <<18, 71, 1, 27, 26, 17, 3, 62, 6, 4, 9, 5, 35, 2, 25, 53, 80, 44, 16, 7>>,
       <<18, 1, 27, 36, 54, 45, 26, 3, 17, 72, 6, 4, 63, 5, 8, 81, 2, 25, 16, 7>>,
       <<18, 1, 64, 13, 20, 17, 3, 46, 19, 37, 14, 2, 12, 21, 55, 73, 15, 28, 11, 16>>,
       <<18, 74, 65, 1, 13, 56, 20, 17, 3, 10, 19, 29, 14, 2, 12, 38, 21, 15, 16, 47>>,
       <<30, 66, 18, 48, 1, 13, 20, 17, 3, 10, 19, 39, 75, 14, 2, 21, 15, 57, 11, 16>>,
       <<18, 22, 17, 10, 6, 5, 4, 76, 67, 31, 14, 40, 12, 49, 58, 15, 23, 11, 16, 24>>,
       <<18, 22, 13, 68, 17, 10, 6, 32, 5, 4, 59, 77, 50, 12, 15, 23, 11, 16, 41, 24>>,
       <<18, 22, 13, 17, 60, 10, 42, 6, 5, 4, 51, 14, 12, 78, 33, 69, 23, 11, 16, 24>>,
       <<18, 27, 13, 26, 17, 10, 61, 9, 52, 8, 14, 70, 12, 25, 79, 34, 43, 15, 11, 7>>,
       <<18, 71, 27, 13, 26, 10, 62, 9, 8, 14, 35, 12, 25, 53, 80, 15, 11, 44, 16, 7>>,
       <<36, 27, 54, 13, 45, 26, 17, 72, 10, 63, 9, 81, 8, 14, 12, 25, 15, 11, 16, 7>>,
       <<1, 27, 64, 22, 20, 26, 3, 46, 10, 37, 2, 12, 21, 25, 55, 73, 23, 28, 11, 24>>,
       <<74, 65, 1, 27, 22, 56, 26, 3, 10, 19, 29, 47, 2, 12, 38, 21, 25, 23, 11, 24>>,
       <<30, 66, 48, 27, 1, 22, 20, 26, 3, 10, 19, 39, 75, 2, 12, 25, 57, 23, 11, 24>>,
       <<27, 13, 20, 26, 19, 6, 5, 4, 76, 67, 31, 14, 40, 21, 25, 49, 58, 15, 23, 24>>,
       <<27, 22, 13, 68, 26, 20, 19, 6, 32, 4, 59, 5, 77, 14, 50, 21, 25, 15, 41, 24>>,
       <<27, 22, 13, 20, 26, 60, 19, 42, 6, 5, 4, 51, 14, 21, 78, 25, 33, 15, 69, 23>>,
       <<18, 27, 22, 20, 26, 17, 19, 61, 9, 52, 8, 70, 21, 79, 34, 43, 23, 16, 7, 24>>,
       <<18, 71, 27, 22, 20, 17, 19, 62, 9, 8, 35, 21, 25, 53, 80, 23, 44, 16, 7, 24>>,
       <<18, 36, 54, 22, 20, 26, 45, 17, 72, 19, 63, 9, 81, 8, 21, 25, 23, 16, 7, 24>>,
       <<30, 36, 1, 64, 48, 46, 10, 19, 39, 29, 32, 31, 35, 38, 55, 33, 73, 34, 37, 47>>,
       <<30, 74, 65, 36, 48, 56, 20, 46, 37, 39, 32, 31, 35, 2, 38, 33, 34, 28, 11, 47>>,
       <<66, 36, 48, 3, 46, 39, 29, 75, 32, 31, 35, 38, 12, 21, 33, 34, 57, 28, 37, 47>>,
       <<30, 36, 22, 13, 42, 29, 32, 4, 76, 51, 67, 50, 40, 35, 33, 49, 34, 58, 28, 41>>,
       <<30, 36, 68, 42, 29, 5, 59, 77, 51, 31, 14, 50, 40, 35, 33, 49, 34, 23, 28, 41>>,
       <<30, 36, 60, 42, 29, 6, 32, 51, 31, 50, 40, 35, 78, 49, 34, 15, 69, 28, 41, 24>>,
       <<30, 36, 54, 45, 29, 32, 61, 52, 31, 70, 35, 25, 79, 53, 33, 43, 28, 44, 16, 7>>,
       <<30, 71, 36, 54, 26, 45, 17, 62, 29, 32, 52, 8, 31, 53, 33, 80, 34, 43, 28, 44>>,
       <<30, 18, 27, 54, 45, 72, 29, 32, 63, 9, 52, 81, 31, 35, 53, 33, 34, 43, 28, 44>>,
       <<30, 1, 48, 64, 45, 46, 10, 19, 39, 29, 42, 40, 38, 55, 73, 43, 28, 44, 41, 47>>,
       <<30, 74, 65, 48, 56, 20, 45, 11, 46, 42, 39, 29, 40, 2, 43, 28, 37, 44, 41, 47>>,
       <<30, 66, 48, 45, 3, 46, 42, 29, 75, 40, 38, 12, 21, 43, 57, 28, 37, 44, 41, 47>>,
       <<22, 13, 45, 42, 39, 32, 4, 76, 51, 67, 31, 50, 38, 33, 49, 43, 58, 37, 44, 41>>,
       <<68, 45, 42, 39, 32, 5, 59, 77, 51, 31, 14, 50, 40, 38, 33, 49, 43, 23, 37, 44>>,
       <<45, 60, 39, 6, 32, 51, 31, 50, 40, 38, 78, 33, 49, 43, 15, 69, 37, 44, 41, 24>>,
       <<36, 54, 45, 42, 39, 61, 52, 70, 40, 35, 38, 7, 25, 79, 53, 34, 37, 44, 16, 41>>,
       <<71, 36, 54, 45, 26, 17, 42, 39, 62, 52, 8, 40, 35, 38, 53, 80, 34, 43, 37, 41>>,
       <<18, 36, 27, 54, 72, 42, 39, 63, 9, 52, 81, 40, 35, 38, 53, 34, 43, 37, 44, 41>>,
       <<30, 48, 1, 64, 54, 10, 19, 39, 29, 52, 51, 50, 38, 55, 53, 73, 49, 28, 37, 47>>,
       <<30, 74, 65, 48, 54, 56, 20, 11, 46, 39, 29, 52, 51, 50, 2, 38, 53, 49, 28, 37>>,
       <<30, 66, 54, 3, 46, 39, 29, 75, 52, 51, 50, 38, 12, 21, 53, 49, 57, 28, 37, 47>>,
       <<48, 54, 22, 13, 46, 42, 32, 4, 52, 51, 67, 76, 31, 50, 40, 53, 33, 58, 41, 47>>,
       <<48, 54, 68, 46, 42, 32, 5, 59, 77, 52, 51, 31, 14, 40, 53, 33, 49, 23, 41, 47>>,
       <<48, 54, 60, 46, 42, 6, 32, 52, 31, 24, 50, 40, 78, 53, 33, 49, 15, 69, 41, 47>>,
       <<48, 36, 54, 45, 46, 61, 51, 70, 50, 35, 25, 79, 53, 49, 43, 34, 44, 16, 7, 47>>,
       <<71, 48, 36, 54, 26, 45, 17, 46, 62, 52, 51, 8, 50, 35, 80, 49, 43, 34, 44, 47>>,
       <<18, 48, 27, 36, 45, 46, 72, 63, 9, 52, 51, 81, 50, 35, 53, 49, 43, 34, 44, 47>>,
       <<66, 74, 65, 1, 64, 56, 60, 46, 10, 19, 62, 75, 63, 61, 59, 73, 58, 57, 28, 37>>,
       <<66, 74, 65, 64, 20, 60, 62, 29, 75, 63, 61, 59, 2, 38, 55, 73, 58, 57, 11, 47>>,
       <<30, 66, 74, 65, 48, 64, 56, 3, 60, 39, 62, 75, 63, 61, 59, 12, 21, 55, 73, 58>>,
       <<22, 13, 56, 68, 60, 62, 4, 63, 61, 59, 77, 76, 67, 31, 40, 78, 55, 49, 57, 69>>,
       <<56, 68, 60, 62, 32, 5, 63, 61, 77, 76, 67, 14, 50, 78, 55, 58, 57, 69, 23, 41>>,
       <<56, 68, 42, 62, 6, 63, 61, 59, 77, 76, 51, 67, 78, 55, 33, 58, 15, 57, 69, 24>>,
       <<71, 56, 60, 72, 62, 63, 59, 52, 81, 70, 25, 55, 79, 80, 58, 43, 57, 34, 16, 7>>,
       <<71, 56, 26, 17, 60, 72, 63, 61, 59, 8, 81, 70, 35, 55, 79, 53, 80, 58, 57, 44>>,
       <<18, 71, 36, 27, 54, 56, 45, 60, 72, 62, 61, 9, 59, 81, 70, 55, 79, 80, 58, 57>>,
       <<66, 71, 74, 65, 1, 68, 56, 46, 72, 19, 10, 75, 67, 70, 55, 73, 57, 69, 28, 37>>,
       <<66, 71, 74, 64, 68, 20, 56, 72, 29, 75, 67, 70, 2, 38, 55, 73, 57, 69, 11, 47>>,
       <<30, 71, 74, 65, 48, 64, 68, 56, 3, 72, 39, 75, 67, 70, 12, 21, 55, 73, 57, 69>>,
       <<66, 71, 65, 22, 64, 13, 68, 60, 72, 4, 59, 77, 76, 31, 70, 40, 78, 49, 58, 69>>,
       <<66, 71, 65, 64, 60, 72, 32, 5, 59, 77, 76, 67, 70, 14, 50, 78, 58, 69, 23, 41>>,
       <<66, 71, 65, 64, 68, 60, 72, 42, 6, 59, 77, 76, 51, 67, 70, 78, 33, 58, 15, 24>>,
       <<66, 71, 65, 64, 68, 72, 62, 63, 61, 52, 81, 67, 25, 79, 80, 34, 43, 69, 16, 7>>,
       <<66, 65, 64, 68, 26, 17, 72, 62, 63, 61, 8, 81, 67, 70, 35, 79, 53, 80, 69, 44>>,
       <<66, 18, 71, 65, 36, 27, 64, 54, 68, 45, 62, 63, 61, 9, 81, 67, 70, 79, 80, 69>>,
       <<66, 74, 65, 1, 64, 56, 46, 10, 19, 75, 77, 76, 81, 78, 79, 55, 80, 57, 28, 37>>,
       <<66, 65, 64, 56, 20, 29, 75, 77, 76, 81, 2, 38, 78, 79, 55, 73, 80, 57, 11, 47>>,
       <<30, 66, 74, 65, 48, 64, 56, 3, 39, 77, 76, 81, 12, 21, 78, 79, 55, 73, 80, 57>>,
       <<74, 22, 13, 68, 60, 75, 4, 59, 77, 81, 67, 31, 40, 78, 79, 73, 80, 49, 58, 69>>,
       <<74, 68, 60, 75, 32, 5, 59, 76, 81, 67, 14, 50, 78, 79, 73, 80, 58, 69, 23, 41>>,
       <<74, 68, 60, 42, 6, 75, 59, 77, 76, 51, 67, 81, 79, 73, 80, 33, 58, 15, 69, 24>>,
       <<71, 74, 72, 62, 75, 63, 61, 77, 52, 76, 81, 70, 78, 25, 73, 80, 34, 43, 16, 7>>,
       <<71, 74, 26, 17, 72, 62, 75, 63, 61, 77, 76, 81, 8, 70, 35, 78, 79, 53, 73, 44>>,
       <<18, 71, 74, 36, 27, 54, 45, 72, 62, 75, 63, 61, 9, 77, 76, 70, 78, 79, 73, 80>>
    >>,
    << \* PYTHONHASHSEED=2
       <<46, 64, 55, 7, 12, 2, 6, 9, 19, 5, 73, 10, 28, 8, 11, 21, 3, 4, 37, 20>>,
       <<7, 47, 65, 12, 74, 38, 6, 9, 56, 19, 5, 10, 11, 8, 21, 3, 4, 1, 29, 20>>,
       <<7, 12, 57, 2, 75, 6, 9, 66, 39, 19, 5, 10, 30, 21, 8, 11, 4, 1, 48, 20>>,
       <<67, 7, 22, 14, 2, 6, 9, 24, 49, 15, 5, 76, 58, 8, 3, 31, 13, 1, 40, 23>>,
       <<7, 22, 14, 2, 77, 6, 9, 24, 32, 15, 59, 50, 8, 3, 41, 13, 4, 1, 68, 23>>,
       <<33, 7, 51, 22, 14, 60, 2, 9, 78, 24, 69, 15, 5, 8, 42, 3, 13, 4, 1, 23>>,
       <<52, 2, 70, 6, 9, 61, 5, 79, 25, 8, 3, 4, 18, 26, 16, 1, 17, 27, 34, 43>>,
       <<7, 35, 44, 2, 6, 9, 80, 71, 62, 53, 5, 25, 3, 4, 26, 18, 16, 1, 17, 27>>,
       <<45, 72, 7, 2, 6, 63, 5, 25, 8, 3, 54, 4, 18, 26, 27, 1, 17, 16, 81, 36>>,
       <<46, 64, 55, 14, 12, 17, 2, 19, 15, 73, 11, 28, 21, 3, 13, 18, 16, 1, 37, 20>>,
       <<47, 14, 65, 12, 74, 17, 38, 2, 56, 19, 15, 10, 21, 3, 13, 18, 16, 1, 29, 20>>,
       <<14, 57, 75, 2, 66, 39, 19, 15, 10, 30, 11, 21, 3, 13, 18, 16, 1, 17, 48, 20>>,
       <<67, 22, 14, 12, 6, 24, 49, 15, 76, 5, 58, 10, 11, 31, 18, 4, 16, 17, 40, 23>>,
       <<22, 12, 77, 6, 24, 32, 15, 5, 10, 59, 11, 50, 41, 13, 18, 4, 16, 17, 68, 23>>,
       <<33, 51, 22, 14, 12, 6, 78, 24, 69, 5, 10, 11, 42, 13, 18, 4, 16, 60, 17, 23>>,
       <<7, 14, 12, 52, 70, 9, 61, 15, 10, 79, 25, 11, 8, 13, 18, 26, 27, 17, 34, 43>>,
       <<7, 35, 44, 14, 12, 9, 80, 71, 62, 53, 15, 10, 25, 11, 8, 13, 18, 26, 16, 27>>,
       <<45, 72, 7, 14, 12, 63, 9, 15, 10, 25, 11, 8, 54, 13, 26, 16, 27, 17, 81, 36>>,
       <<46, 64, 55, 22, 12, 2, 24, 73, 10, 25, 21, 28, 11, 3, 20, 26, 27, 1, 37, 23>>,
       <<47, 22, 65, 12, 74, 38, 2, 56, 24, 19, 10, 25, 21, 11, 3, 26, 27, 1, 29, 23>>,
       <<22, 12, 57, 75, 2, 24, 66, 39, 19, 10, 30, 25, 11, 3, 20, 26, 27, 1, 48, 23>>,
       <<67, 14, 6, 24, 19, 49, 15, 76, 5, 58, 25, 21, 31, 13, 4, 26, 27, 20, 40, 23>>,
       <<22, 14, 77, 6, 24, 19, 32, 15, 5, 25, 59, 21, 50, 41, 13, 4, 26, 27, 20, 68>>,
       <<33, 51, 22, 14, 6, 78, 19, 69, 15, 5, 25, 21, 42, 13, 4, 26, 20, 27, 60, 23>>,
       <<7, 22, 52, 70, 9, 61, 24, 23, 19, 79, 21, 8, 18, 26, 20, 27, 16, 17, 34, 43>>,
       <<7, 22, 35, 44, 9, 80, 71, 19, 53, 62, 24, 25, 21, 8, 18, 20, 27, 16, 17, 23>>,
       <<45, 72, 7, 22, 63, 9, 24, 19, 25, 21, 8, 54, 18, 26, 20, 16, 17, 81, 36, 23>>,
       <<46, 64, 33, 55, 47, 35, 38, 39, 19, 32, 73, 10, 29, 30, 31, 1, 37, 34, 48, 36>>,
       <<46, 33, 47, 35, 65, 74, 38, 2, 56, 39, 32, 30, 28, 11, 31, 37, 34, 48, 36, 20>>,
       <<46, 33, 47, 35, 12, 57, 38, 75, 66, 39, 32, 29, 28, 21, 3, 31, 37, 34, 48, 36>>,
       <<33, 67, 51, 22, 35, 32, 49, 76, 58, 30, 28, 50, 42, 41, 13, 4, 29, 34, 40, 36>>,
       <<33, 40, 51, 35, 14, 77, 49, 5, 30, 59, 28, 50, 42, 41, 31, 29, 34, 68, 36, 23>>,
       <<51, 35, 6, 78, 24, 32, 49, 15, 69, 30, 28, 50, 42, 41, 31, 60, 29, 34, 40, 36>>,
       <<33, 45, 7, 35, 44, 52, 70, 61, 32, 53, 79, 30, 25, 28, 54, 31, 16, 29, 36, 43>>,
       <<33, 45, 44, 52, 17, 80, 71, 62, 53, 32, 30, 28, 8, 54, 31, 26, 29, 34, 36, 43>>,
       <<33, 45, 72, 35, 44, 52, 63, 9, 32, 53, 30, 28, 54, 31, 18, 27, 29, 81, 34, 43>>,
       <<46, 64, 55, 45, 47, 44, 38, 19, 39, 73, 10, 30, 28, 42, 41, 1, 29, 48, 40, 43>>,
       <<46, 45, 47, 44, 65, 74, 2, 56, 39, 37, 30, 11, 28, 42, 41, 20, 29, 48, 40, 43>>,
       <<46, 45, 47, 44, 12, 38, 57, 75, 66, 37, 30, 21, 28, 42, 3, 41, 29, 48, 40, 43>>,
       <<33, 67, 45, 51, 22, 44, 38, 39, 32, 49, 76, 58, 50, 42, 41, 31, 13, 4, 37, 43>>,
       <<33, 45, 40, 51, 14, 44, 38, 77, 23, 39, 32, 49, 5, 59, 50, 42, 31, 37, 68, 43>>,
       <<33, 45, 51, 44, 38, 6, 78, 24, 39, 32, 49, 15, 69, 50, 41, 31, 60, 37, 40, 43>>,
       <<45, 7, 35, 44, 52, 38, 70, 61, 39, 53, 79, 25, 42, 41, 54, 16, 37, 34, 40, 36>>,
       <<45, 35, 52, 17, 38, 80, 71, 39, 53, 62, 8, 42, 41, 54, 26, 37, 34, 40, 36, 43>>,
       <<72, 35, 44, 52, 38, 63, 9, 39, 53, 42, 41, 54, 18, 27, 37, 81, 34, 40, 36, 43>>,
       <<64, 55, 47, 51, 52, 38, 19, 53, 49, 39, 37, 73, 10, 30, 28, 50, 54, 1, 29, 48>>,
       <<46, 51, 65, 52, 74, 38, 2, 56, 39, 53, 49, 37, 30, 11, 28, 50, 54, 29, 48, 20>>,
       <<46, 47, 51, 12, 52, 57, 38, 75, 66, 39, 53, 49, 37, 30, 21, 28, 50, 3, 54, 29>>,
       <<46, 33, 67, 47, 51, 22, 52, 32, 53, 76, 58, 50, 42, 54, 31, 13, 4, 41, 48, 40>>,
       <<46, 33, 40, 47, 51, 14, 52, 77, 32, 53, 49, 5, 59, 42, 54, 31, 41, 48, 68, 23>>,
       <<46, 33, 47, 52, 6, 78, 24, 32, 53, 15, 49, 69, 50, 42, 54, 31, 41, 60, 48, 40>>,
       <<46, 45, 47, 51, 7, 35, 44, 70, 61, 53, 49, 79, 25, 50, 54, 16, 34, 48, 36, 43>>,
       <<46, 45, 47, 51, 35, 44, 52, 80, 71, 62, 49, 50, 8, 54, 26, 17, 34, 48, 36, 43>>,
       <<46, 45, 72, 47, 51, 35, 44, 52, 63, 9, 53, 49, 50, 18, 27, 81, 34, 48, 36, 43>>,
       <<46, 64, 65, 74, 57, 75, 63, 61, 56, 62, 66, 19, 58, 73, 1, 10, 59, 28, 60, 37>>,
       <<64, 55, 47, 65, 74, 57, 38, 2, 75, 63, 61, 62, 66, 58, 73, 59, 11, 60, 29, 20>>,
       <<64, 55, 65, 12, 74, 75, 63, 61, 56, 62, 66, 39, 58, 73, 30, 59, 21, 3, 60, 48>>,
       <<55, 67, 40, 22, 57, 77, 63, 61, 56, 78, 62, 69, 49, 76, 59, 31, 13, 4, 60, 68>>,
       <<55, 67, 14, 57, 77, 63, 61, 56, 78, 62, 32, 69, 5, 76, 58, 50, 41, 60, 68, 23>>,
       <<33, 55, 67, 51, 57, 77, 6, 63, 61, 78, 56, 24, 62, 69, 15, 76, 58, 59, 42, 68>>,
       <<55, 72, 7, 52, 57, 70, 63, 56, 80, 71, 62, 58, 79, 59, 25, 16, 60, 81, 34, 43>>,
       <<55, 72, 35, 44, 57, 70, 63, 61, 56, 80, 71, 53, 58, 79, 59, 8, 26, 60, 17, 81>>,
       <<55, 45, 72, 57, 70, 9, 56, 80, 71, 61, 62, 58, 79, 59, 54, 18, 27, 60, 81, 36>>,
       <<46, 67, 55, 72, 65, 74, 57, 75, 70, 56, 71, 19, 66, 69, 73, 10, 28, 1, 37, 68>>,
       <<64, 67, 55, 72, 47, 74, 38, 57, 2, 75, 70, 56, 71, 66, 69, 73, 11, 29, 68, 20>>,
       <<64, 67, 55, 72, 65, 12, 74, 57, 75, 70, 56, 71, 39, 69, 73, 30, 21, 3, 48, 68>>,
       <<64, 40, 72, 22, 65, 77, 70, 78, 71, 66, 69, 49, 76, 58, 59, 31, 13, 4, 60, 68>>,
       <<64, 67, 72, 14, 65, 77, 70, 78, 71, 66, 32, 69, 5, 76, 58, 59, 50, 41, 60, 23>>,
       <<64, 33, 67, 72, 51, 65, 77, 70, 6, 78, 24, 71, 66, 15, 76, 58, 59, 42, 60, 68>>,
       <<64, 67, 72, 7, 65, 52, 63, 61, 80, 71, 66, 62, 69, 79, 25, 16, 81, 34, 68, 43>>,
       <<64, 67, 72, 35, 65, 44, 70, 63, 61, 80, 66, 53, 62, 69, 79, 8, 26, 17, 81, 68>>,
       <<64, 67, 45, 65, 70, 63, 9, 61, 80, 71, 66, 62, 69, 79, 54, 18, 27, 81, 68, 36>>,
       <<46, 64, 55, 65, 74, 57, 75, 77, 56, 78, 80, 19, 66, 76, 10, 79, 28, 1, 37, 81>>,
       <<64, 55, 47, 65, 38, 57, 75, 77, 2, 56, 78, 80, 66, 76, 73, 79, 11, 29, 81, 20>>,
       <<64, 55, 65, 12, 74, 57, 77, 56, 78, 66, 80, 39, 76, 73, 79, 30, 21, 3, 81, 48>>,
       <<67, 40, 22, 74, 75, 77, 78, 80, 69, 49, 58, 73, 79, 59, 31, 13, 4, 60, 81, 68>>,
       <<67, 14, 74, 75, 78, 80, 32, 69, 76, 5, 58, 73, 79, 59, 50, 41, 60, 81, 68, 23>>,
       <<33, 67, 51, 74, 75, 77, 6, 80, 24, 69, 15, 76, 58, 73, 79, 59, 42, 60, 81, 68>>,
       <<72, 7, 52, 74, 75, 77, 70, 63, 61, 78, 80, 71, 62, 76, 73, 25, 16, 81, 34, 43>>,
       <<72, 35, 44, 74, 75, 77, 70, 63, 61, 78, 71, 62, 53, 76, 73, 79, 8, 26, 17, 81>>,
       <<45, 72, 74, 75, 77, 70, 63, 9, 78, 80, 71, 61, 62, 76, 73, 79, 54, 18, 27, 36>>
    >>,
    << \* PYTHONHASHSEED=3
       <<37, 6, 64, 4, 46, 55, 9, 21, 19, 11, 10, 12, 5, 73, 7, 2, 20, 8, 28, 3>>,
       <<56, 6, 4, 9, 74, 21, 19, 11, 10, 12, 5, 47, 38, 7, 29, 20, 8, 3, 65, 1>>,
       <<6, 66, 4, 39, 9, 21, 19, 11, 10, 12, 48, 5, 7, 75, 2, 30, 57, 20, 8, 1>>,
       <<14, 6, 31, 9, 76, 15, 40, 5, 49, 67, 7, 22, 23, 2, 58, 24, 13, 8, 3, 1>>,
       <<14, 59, 6, 4, 32, 50, 9, 15, 7, 22, 23, 2, 24, 77, 13, 41, 8, 68, 3, 1>>,
       <<14, 4, 51, 9, 15, 69, 5, 42, 78, 7, 22, 23, 2, 24, 13, 60, 8, 3, 33, 1>>,
       <<18, 6, 4, 25, 34, 9, 43, 17, 52, 5, 26, 3, 61, 2, 27, 16, 8, 79, 70, 1>>,
       <<18, 6, 4, 35, 25, 9, 62, 80, 17, 71, 44, 5, 26, 7, 2, 27, 53, 16, 3, 1>>,
       <<18, 81, 6, 4, 25, 72, 17, 5, 26, 7, 3, 2, 27, 16, 8, 54, 36, 63, 45, 1>>,
       <<37, 14, 18, 64, 46, 55, 21, 19, 17, 11, 12, 15, 73, 2, 13, 16, 20, 28, 3, 1>>,
       <<56, 14, 18, 74, 21, 19, 17, 12, 10, 15, 47, 38, 2, 13, 29, 16, 20, 3, 65, 1>>,
       <<14, 18, 66, 39, 21, 19, 17, 11, 10, 48, 15, 75, 2, 30, 57, 13, 16, 20, 3, 1>>,
       <<14, 18, 6, 4, 31, 17, 11, 76, 12, 10, 40, 15, 5, 49, 67, 22, 23, 58, 24, 16>>,
       <<18, 59, 6, 4, 32, 50, 17, 11, 12, 10, 15, 5, 22, 23, 24, 13, 77, 41, 16, 68>>,
       <<14, 18, 6, 4, 51, 17, 11, 12, 10, 69, 42, 5, 78, 22, 23, 24, 13, 60, 16, 33>>,
       <<14, 18, 25, 34, 9, 43, 17, 11, 52, 12, 10, 15, 26, 7, 61, 27, 13, 8, 79, 70>>,
       <<14, 18, 35, 25, 9, 62, 80, 11, 71, 12, 10, 15, 44, 26, 7, 27, 13, 53, 16, 8>>,
       <<14, 81, 25, 9, 72, 17, 11, 12, 10, 15, 26, 7, 27, 13, 16, 36, 54, 8, 63, 45>>,
       <<37, 64, 25, 46, 55, 21, 11, 10, 12, 73, 26, 22, 23, 2, 27, 24, 20, 28, 3, 1>>,
       <<56, 25, 21, 74, 19, 11, 10, 12, 47, 26, 38, 22, 23, 2, 27, 24, 29, 3, 65, 1>>,
       <<66, 25, 39, 19, 11, 12, 10, 48, 26, 22, 75, 23, 2, 27, 30, 57, 24, 20, 3, 1>>,
       <<14, 6, 4, 25, 31, 21, 19, 76, 15, 40, 5, 49, 26, 67, 23, 27, 58, 24, 13, 20>>,
       <<14, 59, 6, 4, 25, 32, 50, 21, 19, 15, 5, 26, 22, 27, 24, 77, 13, 41, 20, 68>>,
       <<14, 6, 4, 25, 51, 21, 19, 15, 69, 5, 42, 78, 26, 22, 23, 27, 13, 60, 20, 33>>,
       <<18, 34, 9, 21, 19, 43, 17, 52, 26, 7, 22, 23, 61, 27, 24, 20, 16, 8, 79, 70>>,
       <<18, 35, 25, 9, 21, 19, 62, 80, 17, 71, 44, 7, 22, 23, 27, 24, 53, 20, 16, 8>>,
       <<18, 81, 25, 9, 21, 72, 19, 45, 17, 26, 7, 22, 23, 24, 20, 16, 54, 36, 63, 8>>,
       <<37, 64, 35, 39, 32, 31, 46, 55, 34, 19, 10, 48, 73, 47, 38, 30, 29, 36, 33, 1>>,
       <<56, 37, 35, 39, 32, 31, 46, 34, 74, 11, 48, 47, 38, 65, 2, 30, 20, 36, 28, 33>>,
       <<37, 66, 35, 39, 32, 31, 46, 34, 21, 12, 48, 47, 38, 75, 57, 29, 36, 28, 3, 33>>,
       <<35, 4, 32, 51, 50, 34, 76, 40, 42, 49, 67, 22, 30, 58, 13, 29, 41, 36, 28, 33>>,
       <<14, 59, 35, 31, 51, 50, 34, 40, 42, 5, 49, 23, 30, 77, 29, 41, 36, 68, 28, 33>>,
       <<6, 35, 32, 31, 51, 50, 34, 15, 69, 40, 42, 78, 49, 30, 24, 29, 41, 60, 36, 28>>,
       <<35, 25, 32, 31, 43, 45, 52, 28, 44, 7, 61, 30, 29, 53, 16, 36, 54, 79, 70, 33>>,
       <<32, 31, 34, 62, 43, 80, 45, 17, 71, 52, 44, 26, 30, 29, 53, 36, 8, 54, 28, 33>>,
       <<18, 81, 35, 32, 31, 34, 9, 72, 43, 45, 52, 44, 27, 30, 29, 53, 54, 28, 63, 33>>,
       <<64, 39, 46, 55, 43, 19, 10, 48, 40, 42, 44, 73, 47, 38, 30, 41, 29, 28, 45, 1>>,
       <<37, 56, 39, 46, 74, 43, 11, 48, 40, 42, 44, 47, 65, 2, 30, 41, 29, 20, 28, 45>>,
       <<37, 66, 46, 21, 43, 12, 48, 40, 42, 44, 47, 38, 75, 30, 57, 41, 29, 28, 3, 45>>,
       <<37, 33, 4, 39, 32, 31, 51, 50, 43, 76, 42, 44, 49, 67, 38, 22, 58, 13, 41, 45>>,
       <<37, 14, 33, 59, 39, 32, 31, 51, 50, 43, 40, 42, 44, 5, 49, 38, 23, 77, 68, 45>>,
       <<37, 33, 6, 39, 32, 51, 31, 50, 43, 15, 69, 40, 44, 78, 49, 38, 24, 41, 60, 45>>,
       <<37, 35, 25, 39, 34, 52, 40, 42, 44, 38, 7, 61, 41, 53, 16, 36, 54, 79, 70, 45>>,
       <<37, 35, 39, 34, 43, 62, 80, 17, 71, 52, 40, 42, 26, 38, 41, 53, 8, 36, 54, 45>>,
       <<37, 18, 81, 35, 39, 34, 9, 72, 43, 52, 40, 42, 44, 38, 27, 41, 53, 36, 54, 63>>,
       <<37, 64, 39, 51, 50, 55, 19, 52, 10, 48, 73, 47, 49, 38, 30, 53, 29, 54, 28, 1>>,
       <<56, 37, 39, 51, 46, 50, 74, 11, 52, 48, 49, 38, 2, 30, 53, 29, 20, 54, 28, 65>>,
       <<37, 66, 39, 51, 46, 50, 21, 52, 12, 47, 49, 38, 75, 30, 57, 53, 29, 54, 28, 3>>,
       <<4, 32, 51, 46, 31, 50, 76, 52, 48, 40, 42, 47, 67, 22, 58, 13, 53, 41, 54, 33>>,
       <<14, 59, 32, 51, 46, 31, 52, 48, 40, 42, 5, 47, 49, 23, 77, 53, 41, 68, 54, 33>>,
       <<6, 32, 46, 31, 50, 52, 15, 48, 40, 42, 69, 78, 47, 49, 24, 53, 41, 60, 54, 33>>,
       <<35, 25, 51, 46, 50, 34, 43, 48, 44, 47, 49, 7, 61, 53, 16, 36, 54, 79, 70, 45>>,
       <<35, 51, 46, 50, 34, 62, 43, 80, 17, 52, 71, 48, 44, 47, 49, 26, 8, 36, 54, 45>>,
       <<18, 81, 35, 51, 46, 50, 9, 34, 72, 43, 52, 48, 44, 47, 49, 27, 53, 36, 63, 45>>,
       <<56, 37, 59, 66, 64, 46, 74, 62, 19, 10, 73, 75, 61, 57, 58, 60, 28, 63, 65, 1>>,
       <<59, 66, 64, 55, 74, 62, 11, 73, 47, 38, 75, 61, 2, 57, 58, 29, 60, 20, 63, 65>>,
       <<56, 59, 66, 64, 39, 55, 21, 74, 62, 12, 48, 73, 3, 75, 61, 30, 58, 60, 63, 65>>,
       <<56, 59, 4, 31, 55, 62, 76, 69, 40, 78, 49, 67, 22, 61, 57, 13, 77, 60, 68, 63>>,
       <<56, 14, 32, 55, 50, 62, 76, 69, 5, 78, 67, 23, 61, 57, 58, 77, 41, 60, 68, 63>>,
       <<56, 59, 6, 51, 55, 62, 76, 15, 69, 42, 78, 67, 61, 57, 58, 24, 77, 68, 63, 33>>,
       <<56, 81, 63, 59, 25, 55, 34, 72, 62, 43, 80, 52, 71, 7, 57, 58, 60, 16, 79, 70>>,
       <<56, 81, 63, 59, 35, 55, 72, 80, 17, 71, 44, 26, 61, 57, 58, 53, 60, 8, 79, 70>>,
       <<56, 18, 81, 59, 55, 9, 72, 62, 80, 71, 61, 27, 57, 58, 60, 36, 54, 79, 70, 45>>,
       <<37, 56, 66, 46, 55, 74, 72, 19, 71, 10, 69, 73, 67, 75, 57, 68, 28, 70, 65, 1>>,
       <<56, 66, 64, 55, 74, 72, 11, 71, 69, 73, 47, 67, 38, 75, 2, 57, 29, 20, 68, 70>>,
       <<56, 64, 39, 55, 21, 72, 74, 71, 12, 48, 69, 73, 67, 3, 75, 30, 57, 68, 70, 65>>,
       <<59, 66, 64, 4, 31, 72, 76, 71, 69, 40, 78, 49, 22, 58, 13, 77, 60, 68, 70, 65>>,
       <<14, 59, 66, 64, 32, 50, 72, 76, 71, 69, 5, 78, 67, 23, 58, 77, 41, 60, 70, 65>>,
       <<33, 59, 6, 66, 64, 51, 72, 76, 71, 15, 42, 78, 67, 58, 24, 77, 60, 68, 70, 65>>,
       <<81, 66, 64, 25, 34, 72, 43, 62, 80, 52, 71, 69, 67, 7, 61, 16, 68, 79, 63, 65>>,
       <<81, 66, 64, 35, 72, 62, 80, 70, 17, 69, 44, 26, 67, 61, 53, 8, 68, 79, 63, 65>>,
       <<18, 81, 66, 64, 9, 62, 45, 80, 70, 71, 69, 67, 61, 27, 36, 68, 54, 79, 63, 65>>,
       <<37, 56, 81, 66, 64, 46, 55, 74, 19, 80, 76, 10, 28, 78, 75, 57, 77, 79, 65, 1>>,
       <<56, 81, 66, 64, 55, 80, 11, 76, 73, 47, 78, 38, 75, 2, 57, 77, 29, 20, 79, 65>>,
       <<56, 81, 66, 64, 39, 55, 74, 21, 80, 76, 12, 48, 73, 78, 30, 57, 77, 79, 3, 65>>,
       <<81, 59, 4, 31, 74, 80, 69, 40, 73, 49, 78, 67, 22, 75, 58, 77, 13, 60, 68, 79>>,
       <<14, 81, 59, 32, 50, 74, 80, 76, 69, 5, 73, 78, 67, 75, 23, 58, 41, 60, 68, 79>>,
       <<81, 59, 6, 51, 74, 80, 76, 15, 69, 42, 73, 67, 75, 58, 24, 77, 60, 68, 79, 33>>,
       <<81, 25, 34, 74, 72, 43, 62, 80, 70, 76, 52, 71, 73, 78, 7, 75, 61, 77, 16, 63>>,
       <<81, 35, 74, 72, 62, 70, 17, 76, 71, 44, 73, 78, 26, 75, 61, 77, 53, 8, 79, 63>>,
       <<18, 9, 74, 72, 62, 80, 70, 76, 71, 73, 78, 75, 61, 27, 77, 36, 54, 79, 63, 45>>
    >>
>>
\* The same for the module-level sets of sudoku_cp, which are built by
\* set(...) - set([s]) from the column-first UNIT_LIST and so iterate in an
\* order of their own: list(sudoku_cp.PEERS[s]) under PYTHONHASHSEED = 0, 1, 2, 3.
PEERS_iteration == <<
    << \* PYTHONHASHSEED=0
       <<4, 6, 9, 64, 46, 8, 28, 12, 20, 11, 19, 10, 73, 21, 3, 2, 55, 7, 37, 5>>,
       <<4, 6, 9, 29, 8, 56, 12, 20, 11, 10, 19, 47, 21, 1, 65, 3, 7, 38, 5, 74>>,
       <<4, 6, 9, 8, 30, 12, 20, 11, 10, 19, 66, 21, 75, 1, 2, 39, 48, 7, 5, 57>>,
       <<6, 9, 8, 24, 76, 23, 58, 31, 49, 67, 1, 3, 14, 2, 40, 7, 22, 13, 15, 5>>,
       <<4, 41, 6, 9, 59, 8, 24, 23, 32, 50, 68, 1, 3, 14, 2, 77, 7, 22, 13, 15>>,
       <<69, 4, 33, 9, 8, 24, 23, 42, 1, 3, 60, 14, 2, 51, 7, 22, 13, 15, 5, 78>>,
       <<25, 4, 6, 9, 8, 70, 34, 52, 1, 3, 2, 79, 17, 26, 61, 43, 5, 27, 18, 16>>,
       <<4, 25, 6, 9, 35, 80, 62, 1, 53, 3, 2, 17, 26, 7, 44, 71, 5, 27, 18, 16>>,
       <<4, 25, 6, 54, 45, 8, 81, 72, 63, 1, 3, 2, 27, 17, 7, 26, 5, 36, 18, 16>>,
       <<64, 46, 28, 12, 20, 19, 73, 21, 1, 3, 14, 2, 55, 17, 37, 13, 15, 11, 18, 16>>,
       <<29, 56, 12, 20, 10, 19, 47, 21, 1, 65, 3, 14, 2, 17, 13, 15, 38, 74, 18, 16>>,
       <<30, 20, 10, 19, 66, 21, 75, 1, 3, 14, 2, 39, 48, 17, 13, 15, 11, 57, 18, 16>>,
       <<4, 6, 24, 76, 12, 23, 11, 10, 58, 31, 49, 67, 14, 17, 40, 22, 15, 5, 18, 16>>,
       <<4, 41, 6, 59, 24, 23, 32, 12, 11, 10, 50, 68, 77, 17, 22, 13, 15, 5, 18, 16>>,
       <<69, 4, 33, 6, 24, 12, 23, 11, 10, 42, 60, 14, 51, 17, 22, 13, 5, 78, 18, 16>>,
       <<25, 9, 8, 70, 34, 12, 10, 52, 14, 79, 17, 7, 26, 61, 13, 15, 43, 11, 27, 18>>,
       <<25, 9, 35, 8, 12, 10, 80, 62, 53, 14, 26, 7, 44, 71, 13, 15, 11, 27, 18, 16>>,
       <<25, 9, 54, 45, 8, 81, 12, 10, 72, 63, 14, 27, 17, 7, 26, 13, 15, 11, 36, 16>>,
       <<25, 64, 46, 28, 24, 23, 12, 20, 10, 73, 21, 1, 3, 2, 55, 26, 37, 22, 11, 27>>,
       <<25, 29, 56, 24, 23, 12, 19, 10, 47, 21, 1, 65, 3, 2, 27, 26, 22, 38, 11, 74>>,
       <<25, 24, 30, 12, 20, 23, 19, 10, 66, 75, 1, 3, 2, 39, 48, 26, 22, 11, 27, 57>>,
       <<4, 25, 6, 24, 76, 23, 20, 19, 58, 31, 49, 21, 67, 14, 40, 26, 13, 15, 5, 27>>,
       <<25, 4, 41, 6, 59, 24, 32, 20, 19, 50, 68, 21, 14, 77, 26, 22, 13, 15, 5, 27>>,
       <<69, 25, 4, 33, 6, 23, 20, 19, 42, 21, 60, 14, 51, 26, 22, 13, 15, 5, 27, 78>>,
       <<9, 8, 24, 70, 34, 23, 20, 19, 52, 21, 79, 17, 7, 26, 61, 22, 43, 27, 18, 16>>,
       <<25, 9, 35, 8, 24, 23, 20, 19, 80, 62, 21, 53, 17, 7, 44, 71, 22, 27, 18, 16>>,
       <<25, 9, 54, 45, 8, 24, 81, 23, 20, 19, 72, 21, 63, 17, 26, 7, 22, 36, 18, 16>>,
       <<33, 64, 35, 46, 30, 32, 36, 34, 19, 10, 73, 47, 31, 1, 39, 55, 48, 37, 38, 29>>,
       <<33, 35, 46, 56, 28, 30, 32, 20, 36, 34, 47, 31, 65, 2, 39, 48, 37, 38, 11, 74>>,
       <<33, 29, 35, 46, 28, 32, 12, 34, 47, 31, 66, 21, 75, 3, 39, 48, 37, 38, 36, 57>>,
       <<4, 33, 41, 29, 35, 28, 76, 30, 32, 34, 42, 58, 50, 49, 67, 51, 40, 22, 13, 36>>,
       <<41, 33, 29, 35, 59, 28, 30, 23, 34, 42, 50, 31, 68, 49, 14, 77, 51, 40, 5, 36>>,
       <<69, 6, 41, 29, 35, 24, 28, 30, 32, 34, 42, 50, 31, 49, 60, 51, 40, 15, 36, 78>>,
       <<25, 33, 54, 29, 35, 45, 28, 70, 30, 32, 52, 31, 53, 79, 7, 61, 44, 43, 36, 16>>,
       <<33, 54, 29, 45, 8, 28, 30, 32, 34, 80, 52, 62, 31, 53, 17, 26, 44, 71, 43, 36>>,
       <<33, 9, 54, 35, 45, 28, 81, 30, 32, 34, 72, 52, 31, 63, 53, 27, 44, 43, 29, 18>>,
       <<41, 43, 64, 45, 46, 28, 30, 19, 10, 73, 47, 42, 1, 39, 55, 48, 40, 44, 38, 29>>,
       <<41, 43, 29, 45, 46, 56, 28, 30, 20, 47, 42, 65, 2, 39, 48, 40, 37, 44, 11, 74>>,
       <<41, 43, 45, 46, 28, 30, 12, 47, 42, 66, 21, 75, 3, 48, 40, 37, 44, 38, 29, 57>>,
       <<4, 41, 33, 43, 45, 76, 32, 42, 58, 50, 31, 49, 67, 39, 51, 37, 22, 44, 13, 38>>,
       <<33, 43, 59, 45, 23, 32, 42, 50, 31, 68, 49, 14, 39, 77, 51, 40, 37, 44, 38, 5>>,
       <<69, 33, 6, 41, 43, 45, 24, 32, 50, 31, 49, 60, 39, 51, 40, 37, 44, 15, 38, 78>>,
       <<25, 41, 54, 35, 45, 70, 34, 42, 52, 53, 39, 79, 7, 40, 61, 44, 37, 38, 36, 16>>,
       <<41, 43, 54, 35, 45, 8, 34, 80, 42, 52, 62, 53, 39, 17, 26, 40, 37, 71, 38, 36>>,
       <<41, 9, 54, 43, 35, 81, 34, 42, 72, 52, 63, 53, 39, 27, 40, 37, 44, 38, 36, 18>>,
       <<54, 64, 28, 30, 19, 10, 47, 73, 52, 50, 49, 1, 53, 39, 51, 55, 48, 37, 38, 29>>,
       <<54, 29, 46, 56, 28, 30, 20, 52, 50, 49, 65, 53, 2, 39, 51, 48, 37, 38, 11, 74>>,
       <<54, 46, 28, 30, 12, 47, 52, 50, 49, 66, 21, 75, 53, 3, 39, 51, 37, 38, 29, 57>>,
       <<4, 33, 41, 54, 46, 76, 32, 47, 52, 58, 50, 42, 31, 67, 53, 51, 48, 40, 22, 13>>,
       <<41, 33, 54, 59, 46, 23, 32, 47, 52, 42, 31, 49, 68, 53, 14, 77, 51, 48, 40, 5>>,
       <<69, 33, 6, 41, 54, 46, 24, 32, 47, 42, 52, 50, 31, 49, 53, 60, 48, 40, 15, 78>>,
       <<25, 54, 35, 45, 46, 70, 34, 47, 50, 49, 53, 51, 79, 48, 7, 61, 44, 43, 36, 16>>,
       <<54, 35, 45, 46, 8, 34, 47, 80, 52, 50, 62, 49, 51, 48, 17, 26, 44, 71, 43, 36>>,
       <<9, 35, 45, 46, 81, 34, 47, 52, 72, 50, 49, 63, 53, 51, 48, 27, 44, 43, 36, 18>>,
       <<64, 59, 46, 56, 28, 19, 10, 73, 58, 62, 66, 63, 1, 75, 65, 60, 61, 37, 74, 57>>,
       <<29, 64, 59, 20, 47, 73, 58, 62, 66, 63, 75, 65, 60, 2, 55, 61, 38, 11, 74, 57>>,
       <<64, 59, 56, 30, 12, 73, 58, 62, 66, 21, 63, 75, 65, 3, 60, 39, 55, 48, 61, 74>>,
       <<69, 4, 59, 56, 76, 62, 31, 68, 49, 63, 67, 60, 77, 55, 40, 61, 22, 13, 78, 57>>,
       <<69, 41, 56, 76, 23, 32, 58, 50, 62, 68, 63, 67, 60, 14, 77, 55, 61, 5, 78, 57>>,
       <<69, 33, 6, 59, 56, 24, 76, 42, 58, 62, 68, 63, 67, 77, 51, 55, 61, 15, 78, 57>>,
       <<25, 59, 56, 70, 81, 34, 80, 72, 58, 52, 62, 63, 60, 79, 55, 7, 71, 43, 57, 16>>,
       <<35, 59, 8, 56, 70, 81, 80, 72, 58, 63, 53, 60, 79, 55, 17, 26, 61, 44, 71, 57>>,
       <<9, 54, 59, 45, 56, 81, 70, 80, 72, 58, 62, 60, 79, 55, 27, 61, 71, 36, 57, 18>>,
       <<69, 46, 56, 28, 70, 19, 10, 73, 72, 68, 66, 1, 67, 75, 65, 55, 37, 71, 74, 57>>,
       <<69, 29, 64, 56, 70, 20, 47, 73, 72, 68, 66, 67, 75, 2, 55, 71, 38, 11, 74, 57>>,
       <<69, 64, 56, 70, 30, 12, 73, 72, 68, 21, 75, 67, 65, 3, 39, 55, 48, 71, 74, 57>>,
       <<69, 4, 64, 59, 76, 70, 72, 58, 31, 68, 66, 49, 65, 60, 77, 40, 22, 71, 13, 78>>,
       <<69, 41, 64, 59, 70, 76, 32, 23, 72, 58, 50, 66, 67, 65, 60, 14, 77, 71, 5, 78>>,
       <<33, 6, 64, 59, 24, 70, 76, 72, 58, 42, 68, 66, 67, 65, 60, 77, 51, 71, 15, 78>>,
       <<69, 25, 64, 81, 34, 80, 72, 52, 62, 68, 66, 63, 67, 65, 79, 7, 61, 71, 43, 16>>,
       <<69, 64, 35, 8, 70, 81, 80, 72, 62, 68, 66, 63, 67, 65, 53, 79, 17, 26, 61, 44>>,
       <<69, 9, 54, 64, 45, 81, 70, 80, 62, 68, 66, 63, 67, 65, 79, 27, 61, 71, 36, 18>>,
       <<64, 46, 56, 28, 76, 81, 19, 10, 80, 66, 1, 75, 65, 77, 79, 55, 37, 74, 78, 57>>,
       <<29, 64, 56, 76, 81, 20, 47, 73, 80, 66, 75, 65, 2, 77, 79, 55, 38, 11, 78, 57>>,
       <<64, 56, 76, 30, 81, 12, 73, 80, 66, 21, 65, 3, 39, 77, 79, 55, 48, 74, 78, 57>>,
       <<69, 4, 59, 81, 73, 80, 58, 31, 49, 68, 67, 75, 60, 77, 79, 40, 22, 13, 74, 78>>,
       <<69, 41, 59, 76, 81, 32, 23, 73, 80, 58, 50, 68, 75, 67, 60, 14, 79, 5, 74, 78>>,
       <<69, 33, 6, 59, 24, 76, 81, 73, 80, 42, 58, 68, 75, 67, 60, 77, 79, 51, 15, 74>>,
       <<25, 70, 76, 81, 34, 73, 80, 52, 72, 62, 63, 75, 77, 7, 61, 71, 43, 74, 78, 16>>,
       <<35, 8, 76, 81, 70, 73, 72, 62, 63, 75, 53, 77, 79, 17, 26, 61, 44, 71, 74, 78>>,
       <<9, 54, 45, 76, 70, 36, 73, 80, 72, 62, 63, 75, 77, 79, 27, 61, 71, 74, 78, 18>>
    >>,
    << \* PYTHONHASHSEED=1
       <<64, 20, 3, 11, 46, 10, 19, 6, 5, 9, 4, 8, 2, 12, 21, 55, 73, 28, 37, 7>>,
       <<74, 65, 1, 56, 20, 3, 10, 19, 29, 6, 5, 9, 4, 8, 38, 12, 21, 11, 7, 47>>,
       <<30, 66, 48, 1, 20, 10, 19, 39, 6, 75, 5, 9, 4, 8, 2, 12, 21, 57, 11, 7>>,
       <<1, 22, 13, 3, 6, 5, 9, 76, 8, 67, 31, 14, 40, 2, 49, 58, 15, 23, 7, 24>>,
       <<1, 22, 13, 68, 3, 6, 32, 4, 59, 9, 77, 8, 14, 50, 2, 7, 15, 23, 41, 24>>,
       <<1, 22, 13, 3, 60, 42, 5, 9, 4, 8, 51, 14, 2, 78, 33, 15, 69, 23, 7, 24>>,
       <<18, 1, 27, 26, 17, 3, 6, 5, 4, 61, 9, 52, 8, 70, 2, 25, 79, 34, 43, 16>>,
       <<18, 71, 1, 27, 26, 17, 3, 62, 6, 5, 9, 4, 35, 2, 25, 53, 80, 44, 16, 7>>,
       <<18, 36, 27, 1, 54, 45, 26, 3, 17, 72, 6, 5, 63, 4, 81, 8, 2, 25, 16, 7>>,
       <<18, 1, 64, 13, 20, 17, 3, 11, 46, 19, 14, 2, 12, 21, 55, 73, 15, 28, 37, 16>>,
       <<18, 74, 65, 1, 13, 56, 20, 17, 3, 10, 19, 29, 14, 38, 12, 2, 21, 15, 16, 47>>,
       <<30, 66, 18, 48, 1, 13, 20, 17, 3, 10, 19, 39, 75, 14, 2, 21, 15, 57, 11, 16>>,
       <<18, 22, 17, 10, 6, 5, 4, 76, 67, 31, 14, 40, 12, 49, 58, 15, 23, 11, 16, 24>>,
       <<18, 22, 13, 68, 17, 10, 6, 32, 4, 59, 5, 77, 50, 12, 15, 23, 11, 16, 41, 24>>,
       <<18, 22, 13, 17, 60, 10, 42, 6, 5, 4, 51, 14, 12, 78, 33, 69, 23, 11, 16, 24>>,
       <<18, 27, 13, 26, 17, 10, 61, 9, 52, 8, 70, 14, 12, 25, 79, 34, 43, 15, 11, 7>>,
       <<18, 71, 27, 13, 26, 10, 62, 9, 8, 14, 35, 12, 25, 53, 80, 15, 11, 44, 16, 7>>,
       <<36, 27, 54, 13, 45, 26, 17, 72, 10, 63, 9, 81, 8, 14, 12, 25, 15, 11, 16, 7>>,
       <<1, 27, 64, 22, 20, 26, 3, 46, 10, 37, 2, 12, 21, 25, 55, 73, 23, 28, 11, 24>>,
       <<74, 65, 1, 27, 22, 56, 26, 3, 10, 19, 29, 24, 38, 12, 2, 21, 25, 23, 11, 47>>,
       <<30, 66, 1, 48, 27, 22, 20, 26, 3, 10, 19, 39, 75, 2, 12, 25, 57, 23, 11, 24>>,
       <<27, 13, 20, 26, 19, 6, 5, 4, 76, 67, 31, 14, 40, 21, 25, 49, 58, 15, 23, 24>>,
       <<27, 22, 13, 68, 26, 20, 19, 6, 32, 4, 59, 5, 77, 14, 50, 21, 25, 15, 41, 24>>,
       <<27, 22, 13, 20, 26, 60, 19, 42, 6, 5, 4, 51, 14, 21, 78, 25, 33, 15, 69, 23>>,
       <<18, 27, 22, 20, 26, 17, 19, 61, 9, 52, 8, 70, 21, 79, 34, 43, 23, 16, 7, 24>>,
       <<18, 71, 27, 22, 20, 17, 19, 62, 9, 8, 35, 21, 25, 53, 80, 23, 44, 16, 7, 24>>,
       <<18, 36, 54, 22, 20, 45, 26, 17, 72, 19, 63, 9, 81, 8, 21, 25, 23, 16, 7, 24>>,
       <<30, 1, 36, 64, 48, 46, 10, 19, 39, 29, 32, 31, 35, 38, 55, 73, 33, 34, 37, 47>>,
       <<30, 74, 65, 36, 48, 56, 20, 46, 37, 39, 32, 31, 35, 38, 2, 33, 34, 28, 11, 47>>,
       <<66, 48, 36, 3, 46, 39, 29, 75, 32, 31, 35, 38, 12, 21, 33, 34, 57, 28, 37, 47>>,
       <<30, 36, 22, 13, 42, 29, 32, 4, 76, 51, 67, 50, 40, 35, 33, 49, 58, 34, 28, 41>>,
       <<30, 36, 68, 42, 29, 5, 59, 77, 51, 31, 14, 50, 40, 35, 33, 49, 34, 23, 28, 41>>,
       <<30, 36, 60, 42, 29, 6, 32, 51, 31, 50, 40, 35, 78, 49, 34, 15, 69, 28, 41, 24>>,
       <<30, 36, 54, 45, 29, 32, 61, 52, 31, 70, 35, 25, 79, 53, 33, 43, 28, 44, 16, 7>>,
       <<30, 71, 36, 54, 26, 45, 17, 62, 29, 32, 52, 8, 31, 53, 33, 80, 34, 43, 28, 44>>,
       <<30, 18, 27, 54, 45, 72, 29, 32, 63, 9, 52, 81, 31, 35, 53, 33, 34, 43, 28, 44>>,
       <<30, 1, 48, 64, 45, 46, 10, 19, 39, 29, 42, 40, 38, 55, 73, 43, 28, 44, 41, 47>>,
       <<30, 74, 65, 48, 56, 20, 45, 46, 42, 39, 29, 37, 40, 2, 43, 28, 11, 44, 41, 47>>,
       <<30, 66, 48, 45, 3, 46, 42, 29, 75, 40, 38, 12, 21, 43, 57, 28, 37, 44, 41, 47>>,
       <<22, 13, 45, 42, 39, 32, 4, 76, 51, 67, 31, 50, 38, 33, 49, 43, 58, 37, 44, 41>>,
       <<68, 45, 42, 39, 32, 5, 59, 77, 51, 31, 14, 50, 40, 38, 33, 49, 43, 23, 37, 44>>,
       <<45, 60, 39, 6, 32, 51, 31, 50, 40, 38, 78, 33, 49, 43, 15, 69, 37, 44, 41, 24>>,
       <<36, 54, 45, 42, 39, 61, 52, 70, 40, 35, 38, 7, 25, 79, 53, 34, 37, 44, 16, 41>>,
       <<71, 36, 54, 26, 45, 17, 42, 39, 62, 52, 8, 40, 35, 38, 53, 80, 34, 43, 37, 41>>,
       <<18, 36, 27, 54, 72, 42, 39, 63, 9, 52, 81, 40, 35, 38, 53, 34, 43, 37, 44, 41>>,
       <<30, 1, 48, 64, 54, 10, 19, 39, 29, 52, 51, 50, 38, 55, 53, 73, 49, 28, 37, 47>>,
       <<30, 74, 65, 48, 54, 56, 20, 11, 46, 39, 29, 52, 51, 50, 38, 2, 53, 49, 28, 37>>,
       <<30, 66, 54, 3, 46, 39, 29, 75, 52, 51, 50, 38, 12, 21, 53, 49, 57, 28, 37, 47>>,
       <<48, 54, 22, 13, 46, 42, 32, 4, 52, 51, 67, 76, 31, 50, 40, 53, 33, 58, 41, 47>>,
       <<48, 54, 68, 46, 42, 32, 5, 59, 77, 52, 51, 31, 14, 40, 53, 33, 49, 23, 41, 47>>,
       <<48, 54, 60, 46, 42, 6, 32, 47, 52, 31, 50, 40, 78, 53, 33, 49, 15, 69, 41, 24>>,
       <<48, 36, 54, 45, 46, 61, 51, 70, 50, 35, 25, 79, 53, 49, 43, 34, 44, 16, 7, 47>>,
       <<71, 48, 36, 54, 26, 45, 17, 46, 62, 52, 51, 8, 50, 35, 80, 49, 43, 34, 44, 47>>,
       <<18, 36, 27, 48, 45, 46, 72, 63, 9, 52, 51, 81, 50, 35, 53, 49, 43, 34, 44, 47>>,
       <<66, 74, 65, 1, 64, 56, 60, 46, 10, 19, 62, 75, 63, 61, 59, 73, 58, 57, 28, 37>>,
       <<66, 74, 65, 64, 20, 60, 62, 29, 75, 63, 61, 59, 38, 2, 55, 73, 58, 57, 11, 47>>,
       <<30, 66, 74, 65, 48, 64, 56, 3, 60, 39, 62, 75, 63, 61, 59, 12, 21, 55, 73, 58>>,
       <<22, 13, 56, 68, 60, 62, 4, 63, 61, 59, 77, 76, 67, 31, 40, 78, 55, 49, 57, 69>>,
       <<68, 56, 60, 62, 32, 5, 63, 61, 77, 76, 67, 14, 50, 78, 55, 58, 57, 69, 23, 41>>,
       <<56, 68, 42, 62, 6, 63, 61, 59, 77, 76, 51, 67, 78, 55, 33, 58, 15, 57, 69, 24>>,
       <<71, 56, 60, 72, 62, 63, 59, 52, 81, 70, 25, 79, 55, 80, 34, 43, 57, 58, 16, 7>>,
       <<71, 56, 26, 17, 60, 72, 63, 61, 59, 8, 81, 70, 35, 55, 79, 53, 80, 58, 57, 44>>,
       <<18, 71, 36, 27, 54, 56, 45, 60, 72, 62, 61, 59, 9, 81, 70, 55, 79, 80, 58, 57>>,
       <<66, 71, 74, 65, 1, 68, 56, 46, 72, 19, 10, 75, 67, 70, 55, 73, 57, 69, 28, 37>>,
       <<66, 71, 74, 64, 56, 20, 68, 72, 29, 75, 67, 70, 38, 2, 55, 73, 57, 69, 11, 47>>,
       <<30, 71, 74, 65, 48, 64, 68, 56, 3, 72, 39, 75, 67, 70, 12, 21, 55, 73, 57, 69>>,
       <<66, 71, 65, 22, 64, 13, 68, 60, 72, 4, 59, 77, 76, 31, 70, 40, 78, 49, 58, 69>>,
       <<66, 71, 65, 64, 60, 72, 32, 5, 59, 77, 76, 67, 14, 50, 70, 78, 58, 69, 23, 41>>,
       <<66, 71, 65, 64, 68, 60, 72, 42, 6, 59, 77, 76, 51, 67, 70, 78, 33, 58, 15, 24>>,
       <<66, 71, 65, 64, 68, 72, 62, 63, 61, 52, 81, 67, 25, 79, 80, 34, 43, 69, 16, 7>>,
       <<66, 65, 64, 68, 26, 17, 72, 62, 63, 61, 8, 81, 67, 70, 35, 79, 53, 80, 69, 44>>,
       <<66, 18, 71, 65, 36, 27, 64, 54, 68, 45, 62, 63, 61, 9, 81, 67, 70, 79, 80, 69>>,
       <<66, 74, 65, 1, 64, 56, 46, 10, 19, 75, 77, 76, 81, 78, 55, 79, 80, 57, 28, 37>>,
       <<66, 65, 64, 56, 20, 29, 75, 77, 76, 81, 38, 2, 78, 79, 55, 73, 80, 57, 11, 47>>,
       <<30, 66, 74, 65, 48, 64, 56, 3, 39, 77, 76, 81, 12, 21, 78, 79, 55, 73, 80, 57>>,
       <<74, 22, 13, 68, 60, 75, 4, 59, 77, 81, 67, 31, 40, 78, 79, 73, 80, 49, 58, 69>>,
       <<74, 68, 60, 75, 32, 5, 59, 76, 81, 67, 14, 50, 78, 79, 73, 80, 58, 69, 23, 41>>,
       <<74, 68, 60, 42, 75, 6, 59, 77, 76, 51, 67, 81, 79, 33, 73, 80, 58, 15, 69, 24>>,
       <<71, 74, 72, 62, 75, 63, 61, 77, 52, 76, 81, 70, 78, 25, 73, 80, 34, 43, 16, 7>>,
       <<71, 74, 26, 17, 72, 62, 75, 63, 61, 77, 8, 76, 81, 70, 35, 78, 79, 53, 73, 44>>,
       <<18, 71, 74, 36, 27, 54, 45, 72, 62, 75, 63, 61, 9, 77, 76, 70, 78, 79, 73, 80>>
    >>,
    << \* PYTHONHASHSEED=2
       <<46, 64, 55, 7, 12, 2, 6, 9, 19, 5, 73, 10, 28, 8, 11, 21, 3, 4, 37, 20>>,
       <<47, 7, 65, 12, 74, 38, 6, 9, 56, 19, 5, 10, 11, 8, 21, 3, 4, 1, 29, 20>>,
       <<7, 12, 57, 75, 2, 6, 9, 66, 39, 19, 5, 10, 30, 21, 8, 11, 4, 1, 48, 20>>,
       <<67, 7, 22, 14, 2, 6, 9, 24, 49, 15, 76, 5, 58, 8, 3, 31, 13, 1, 40, 23>>,
       <<7, 22, 14, 77, 2, 6, 9, 24, 32, 15, 59, 50, 8, 3, 41, 13, 4, 1, 68, 23>>,
       <<33, 51, 7, 22, 14, 2, 9, 78, 24, 69, 15, 5, 1, 8, 42, 3, 13, 4, 60, 23>>,
       <<52, 2, 70, 6, 9, 61, 5, 79, 25, 8, 3, 4, 18, 26, 16, 1, 17, 27, 34, 43>>,
       <<7, 35, 44, 2, 6, 9, 80, 71, 62, 53, 5, 25, 3, 4, 26, 18, 16, 1, 17, 27>>,
       <<45, 72, 7, 2, 6, 63, 5, 25, 8, 3, 54, 18, 4, 26, 27, 1, 17, 16, 81, 36>>,
       <<46, 64, 55, 14, 12, 17, 2, 19, 15, 73, 28, 11, 21, 3, 13, 18, 16, 1, 37, 20>>,
       <<47, 14, 65, 12, 74, 17, 38, 2, 56, 19, 15, 10, 21, 3, 13, 18, 16, 1, 29, 20>>,
       <<14, 57, 75, 2, 66, 39, 19, 15, 10, 30, 21, 11, 3, 13, 18, 16, 1, 17, 48, 20>>,
       <<67, 22, 14, 12, 6, 24, 49, 15, 76, 5, 58, 10, 11, 31, 4, 18, 16, 17, 40, 23>>,
       <<22, 12, 77, 6, 24, 32, 15, 5, 10, 59, 11, 50, 41, 13, 18, 4, 16, 17, 68, 23>>,
       <<33, 51, 22, 14, 12, 6, 78, 24, 69, 5, 10, 11, 42, 13, 18, 4, 16, 60, 17, 23>>,
       <<7, 14, 12, 52, 70, 9, 61, 15, 10, 79, 25, 11, 8, 13, 18, 26, 27, 17, 34, 43>>,
       <<7, 35, 44, 14, 12, 9, 80, 71, 62, 53, 15, 10, 25, 11, 8, 13, 18, 26, 16, 27>>,
       <<45, 72, 7, 14, 12, 63, 9, 15, 10, 25, 11, 8, 54, 13, 26, 27, 16, 17, 81, 36>>,
       <<46, 64, 55, 22, 12, 2, 24, 23, 73, 10, 25, 28, 21, 11, 3, 26, 27, 1, 37, 20>>,
       <<47, 22, 65, 12, 74, 38, 2, 56, 24, 23, 19, 10, 25, 11, 21, 3, 26, 27, 1, 29>>,
       <<22, 12, 57, 75, 2, 24, 66, 19, 39, 23, 10, 30, 25, 11, 3, 26, 27, 1, 48, 20>>,
       <<67, 14, 6, 24, 19, 49, 15, 76, 5, 58, 25, 21, 31, 13, 4, 26, 27, 20, 40, 23>>,
       <<22, 14, 77, 6, 24, 19, 32, 15, 5, 59, 25, 21, 50, 41, 13, 4, 26, 27, 20, 68>>,
       <<33, 51, 22, 14, 6, 78, 23, 19, 69, 15, 5, 25, 21, 42, 13, 4, 26, 27, 60, 20>>,
       <<7, 22, 52, 70, 9, 61, 24, 23, 19, 79, 21, 8, 18, 26, 16, 20, 17, 27, 34, 43>>,
       <<7, 22, 35, 44, 9, 80, 71, 19, 53, 24, 62, 23, 25, 21, 8, 18, 27, 16, 17, 20>>,
       <<45, 72, 7, 22, 63, 9, 24, 23, 19, 25, 21, 8, 54, 18, 26, 16, 17, 81, 36, 20>>,
       <<46, 64, 33, 55, 47, 35, 38, 39, 19, 32, 37, 73, 10, 30, 31, 1, 29, 34, 48, 36>>,
       <<46, 33, 47, 35, 65, 74, 38, 2, 56, 39, 32, 30, 11, 28, 31, 37, 34, 48, 36, 20>>,
       <<46, 33, 47, 35, 12, 57, 38, 75, 66, 39, 32, 29, 21, 28, 3, 31, 37, 34, 48, 36>>,
       <<33, 67, 51, 22, 35, 32, 49, 76, 58, 30, 28, 50, 42, 41, 13, 4, 29, 34, 40, 36>>,
       <<33, 40, 51, 35, 14, 77, 49, 5, 30, 59, 28, 50, 42, 41, 31, 29, 34, 68, 36, 23>>,
       <<51, 35, 6, 78, 24, 32, 49, 15, 69, 30, 28, 50, 42, 41, 31, 60, 29, 34, 40, 36>>,
       <<33, 45, 7, 35, 44, 52, 70, 61, 32, 53, 79, 30, 25, 28, 54, 31, 16, 29, 36, 43>>,
       <<33, 45, 44, 52, 17, 80, 71, 62, 32, 53, 30, 28, 8, 54, 31, 26, 29, 34, 36, 43>>,
       <<33, 45, 72, 35, 44, 52, 63, 9, 32, 53, 30, 28, 54, 31, 18, 27, 29, 81, 34, 43>>,
       <<46, 64, 55, 45, 47, 44, 38, 39, 19, 73, 10, 30, 28, 42, 41, 1, 29, 48, 40, 43>>,
       <<46, 45, 47, 65, 44, 74, 2, 56, 39, 37, 30, 11, 28, 42, 41, 20, 29, 48, 40, 43>>,
       <<46, 45, 47, 44, 12, 57, 38, 75, 66, 37, 30, 21, 28, 42, 3, 41, 29, 48, 40, 43>>,
       <<33, 67, 45, 51, 22, 44, 38, 39, 32, 49, 76, 58, 50, 42, 41, 31, 13, 4, 37, 43>>,
       <<33, 45, 40, 51, 14, 44, 38, 77, 23, 39, 32, 49, 5, 59, 50, 42, 31, 37, 68, 43>>,
       <<33, 45, 51, 44, 38, 6, 78, 24, 39, 32, 49, 15, 69, 50, 41, 31, 60, 37, 40, 43>>,
       <<45, 7, 35, 44, 52, 38, 70, 61, 39, 53, 79, 25, 42, 41, 54, 16, 37, 34, 40, 36>>,
       <<45, 35, 52, 17, 38, 80, 71, 39, 53, 62, 8, 42, 41, 54, 26, 37, 34, 40, 36, 43>>,
       <<72, 35, 44, 52, 38, 63, 9, 39, 53, 42, 54, 41, 18, 27, 37, 81, 34, 40, 36, 43>>,
       <<64, 55, 47, 51, 52, 38, 19, 53, 49, 39, 37, 73, 10, 30, 28, 50, 54, 1, 29, 48>>,
       <<46, 51, 65, 52, 74, 38, 2, 56, 39, 53, 49, 37, 30, 11, 28, 50, 54, 29, 48, 20>>,
       <<46, 47, 51, 12, 52, 57, 38, 75, 66, 39, 53, 49, 37, 30, 21, 28, 50, 3, 54, 29>>,
       <<46, 33, 67, 47, 51, 22, 52, 32, 53, 76, 58, 50, 42, 54, 31, 13, 4, 41, 48, 40>>,
       <<46, 33, 40, 47, 51, 14, 52, 77, 53, 49, 32, 5, 59, 42, 41, 31, 54, 48, 68, 23>>,
       <<46, 33, 47, 52, 6, 78, 24, 53, 32, 15, 49, 69, 50, 42, 54, 31, 41, 60, 48, 40>>,
       <<46, 45, 7, 47, 51, 35, 44, 70, 61, 53, 49, 79, 25, 50, 54, 16, 34, 48, 36, 43>>,
       <<46, 45, 47, 51, 35, 44, 52, 80, 71, 62, 49, 50, 8, 54, 26, 17, 34, 48, 36, 43>>,
       <<46, 45, 72, 47, 51, 35, 44, 52, 63, 9, 53, 49, 50, 18, 27, 81, 34, 48, 36, 43>>,
       <<46, 64, 65, 60, 74, 57, 75, 63, 61, 56, 62, 66, 19, 58, 73, 10, 59, 28, 1, 37>>,
       <<64, 55, 47, 65, 74, 38, 57, 2, 75, 63, 61, 62, 66, 58, 73, 59, 11, 60, 29, 20>>,
       <<64, 55, 65, 12, 74, 75, 63, 61, 56, 62, 66, 39, 58, 73, 30, 59, 21, 3, 60, 48>>,
       <<67, 55, 40, 22, 57, 77, 63, 61, 56, 78, 62, 69, 49, 76, 59, 31, 13, 4, 60, 68>>,
       <<55, 67, 14, 57, 77, 63, 61, 56, 78, 62, 32, 69, 5, 76, 58, 50, 41, 60, 68, 23>>,
       <<33, 55, 67, 51, 57, 77, 6, 63, 61, 56, 78, 62, 24, 69, 15, 76, 58, 59, 42, 68>>,
       <<55, 72, 7, 52, 57, 70, 63, 56, 80, 71, 62, 58, 79, 25, 59, 16, 60, 81, 34, 43>>,
       <<55, 72, 35, 44, 57, 70, 63, 61, 56, 80, 71, 53, 58, 79, 59, 8, 26, 60, 17, 81>>,
       <<55, 45, 72, 57, 70, 9, 56, 80, 71, 61, 62, 58, 79, 59, 54, 18, 27, 60, 81, 36>>,
       <<46, 55, 67, 72, 65, 74, 57, 75, 70, 56, 71, 66, 19, 69, 73, 10, 28, 1, 37, 68>>,
       <<64, 67, 55, 72, 47, 74, 38, 57, 2, 75, 70, 56, 71, 66, 69, 73, 11, 29, 68, 20>>,
       <<64, 67, 55, 72, 65, 12, 74, 57, 75, 70, 56, 71, 39, 69, 73, 30, 21, 3, 48, 68>>,
       <<64, 40, 72, 22, 65, 77, 70, 78, 71, 66, 69, 49, 76, 58, 59, 31, 13, 4, 60, 68>>,
       <<64, 67, 72, 14, 65, 77, 70, 78, 71, 66, 32, 69, 5, 76, 58, 59, 50, 41, 60, 23>>,
       <<64, 33, 67, 72, 51, 65, 77, 70, 6, 78, 24, 71, 66, 15, 76, 58, 59, 42, 60, 68>>,
       <<64, 67, 72, 7, 65, 52, 63, 61, 80, 71, 66, 62, 69, 79, 25, 16, 81, 34, 68, 43>>,
       <<64, 67, 72, 35, 44, 65, 70, 63, 61, 80, 66, 53, 62, 69, 79, 8, 26, 17, 81, 68>>,
       <<64, 67, 45, 65, 70, 63, 9, 61, 80, 71, 66, 62, 69, 79, 54, 18, 27, 81, 68, 36>>,
       <<46, 64, 55, 65, 74, 57, 75, 77, 56, 78, 80, 19, 66, 76, 10, 79, 28, 1, 37, 81>>,
       <<64, 55, 47, 65, 38, 57, 2, 75, 77, 78, 56, 80, 66, 76, 73, 79, 11, 29, 81, 20>>,
       <<64, 55, 65, 12, 74, 57, 77, 56, 78, 66, 80, 39, 76, 73, 79, 30, 21, 3, 81, 48>>,
       <<67, 40, 22, 74, 75, 77, 78, 80, 69, 49, 58, 73, 79, 59, 31, 13, 4, 60, 81, 68>>,
       <<67, 14, 74, 75, 78, 80, 32, 69, 5, 76, 58, 73, 79, 59, 50, 41, 60, 81, 68, 23>>,
       <<33, 67, 51, 74, 75, 77, 6, 80, 24, 69, 15, 76, 58, 73, 79, 59, 42, 60, 81, 68>>,
       <<72, 7, 52, 74, 75, 77, 70, 63, 61, 78, 80, 71, 62, 76, 73, 25, 16, 81, 34, 43>>,
       <<72, 35, 44, 74, 75, 77, 70, 63, 61, 78, 71, 62, 53, 76, 73, 79, 8, 26, 17, 81>>,
       <<45, 72, 74, 75, 77, 70, 63, 9, 78, 80, 71, 61, 62, 76, 73, 79, 54, 18, 27, 36>>
    >>,
    << \* PYTHONHASHSEED=3
       <<37, 6, 64, 4, 46, 55, 9, 21, 19, 11, 10, 12, 5, 73, 7, 2, 20, 8, 28, 3>>,
       <<56, 6, 4, 9, 74, 21, 19, 11, 10, 12, 5, 47, 38, 7, 29, 20, 8, 3, 65, 1>>,
       <<6, 66, 4, 39, 9, 21, 19, 11, 10, 12, 48, 5, 7, 75, 2, 30, 57, 20, 8, 1>>,
       <<14, 6, 31, 9, 76, 15, 40, 5, 49, 67, 7, 22, 23, 2, 58, 24, 13, 8, 3, 1>>,
       <<14, 59, 6, 4, 32, 50, 9, 15, 7, 22, 23, 2, 24, 77, 13, 41, 8, 68, 3, 1>>,
       <<14, 4, 51, 9, 15, 69, 5, 42, 78, 7, 22, 23, 2, 24, 13, 60, 8, 3, 33, 1>>,
       <<18, 6, 4, 25, 34, 9, 43, 17, 52, 5, 26, 3, 61, 2, 27, 16, 8, 79, 70, 1>>,
       <<18, 6, 35, 4, 25, 9, 62, 80, 17, 71, 44, 5, 26, 7, 2, 27, 53, 16, 3, 1>>,
       <<18, 81, 6, 4, 25, 72, 17, 5, 26, 7, 3, 2, 27, 16, 36, 54, 8, 63, 45, 1>>,
       <<37, 14, 18, 64, 46, 55, 21, 19, 17, 11, 15, 12, 73, 2, 13, 16, 20, 28, 3, 1>>,
       <<56, 14, 18, 74, 21, 19, 17, 12, 10, 15, 47, 38, 2, 13, 29, 20, 16, 3, 65, 1>>,
       <<14, 18, 66, 39, 21, 19, 17, 11, 10, 48, 15, 75, 2, 30, 57, 13, 16, 20, 3, 1>>,
       <<14, 18, 6, 4, 31, 17, 11, 76, 12, 10, 40, 15, 5, 49, 67, 22, 23, 58, 24, 16>>,
       <<18, 59, 6, 4, 32, 50, 17, 11, 10, 15, 12, 5, 22, 23, 24, 77, 13, 41, 16, 68>>,
       <<14, 18, 6, 4, 51, 17, 11, 10, 69, 5, 42, 12, 78, 22, 23, 24, 13, 60, 16, 33>>,
       <<14, 18, 25, 34, 9, 43, 17, 11, 52, 10, 15, 12, 26, 7, 61, 27, 13, 8, 79, 70>>,
       <<14, 18, 35, 25, 9, 62, 80, 11, 71, 10, 15, 12, 44, 26, 7, 27, 13, 53, 16, 8>>,
       <<14, 81, 25, 9, 72, 17, 11, 10, 15, 12, 26, 7, 27, 13, 16, 36, 54, 8, 63, 45>>,
       <<37, 64, 25, 46, 55, 21, 11, 10, 12, 73, 26, 22, 23, 2, 27, 24, 20, 28, 3, 1>>,
       <<56, 25, 74, 21, 19, 11, 10, 12, 47, 26, 38, 22, 23, 2, 27, 24, 29, 3, 65, 1>>,
       <<66, 25, 39, 19, 11, 12, 10, 48, 26, 22, 75, 23, 2, 27, 30, 57, 24, 20, 3, 1>>,
       <<14, 6, 4, 25, 31, 21, 19, 76, 15, 40, 5, 49, 26, 67, 23, 27, 58, 24, 13, 20>>,
       <<14, 59, 6, 4, 25, 32, 50, 21, 19, 15, 5, 26, 22, 27, 24, 77, 13, 41, 20, 68>>,
       <<14, 6, 4, 25, 51, 21, 19, 15, 69, 5, 42, 78, 26, 22, 23, 27, 13, 60, 20, 33>>,
       <<18, 34, 9, 21, 43, 19, 17, 52, 26, 7, 22, 23, 61, 27, 24, 16, 20, 8, 79, 70>>,
       <<18, 35, 25, 9, 21, 62, 19, 80, 17, 71, 44, 7, 22, 23, 27, 24, 53, 20, 16, 8>>,
       <<18, 81, 25, 9, 21, 72, 19, 45, 17, 26, 7, 22, 23, 24, 20, 16, 54, 36, 63, 8>>,
       <<37, 64, 35, 39, 32, 31, 46, 55, 34, 19, 10, 48, 73, 47, 38, 30, 29, 36, 33, 1>>,
       <<56, 37, 33, 35, 39, 32, 31, 46, 34, 74, 11, 48, 47, 38, 2, 30, 20, 36, 28, 65>>,
       <<37, 66, 35, 39, 32, 31, 46, 34, 21, 12, 48, 47, 38, 75, 57, 29, 36, 28, 3, 33>>,
       <<4, 35, 32, 51, 50, 34, 76, 40, 42, 49, 67, 22, 30, 58, 13, 29, 41, 36, 28, 33>>,
       <<14, 59, 35, 31, 51, 50, 34, 40, 42, 5, 49, 23, 30, 77, 41, 29, 36, 68, 28, 33>>,
       <<6, 35, 32, 51, 31, 50, 34, 15, 69, 40, 42, 78, 49, 30, 24, 29, 41, 60, 36, 28>>,
       <<35, 25, 32, 31, 43, 45, 52, 28, 44, 7, 61, 30, 29, 53, 16, 36, 54, 79, 70, 33>>,
       <<33, 32, 31, 34, 62, 43, 80, 17, 71, 52, 44, 26, 30, 53, 29, 8, 36, 54, 28, 45>>,
       <<18, 81, 33, 35, 32, 31, 34, 9, 72, 43, 52, 44, 27, 30, 29, 53, 54, 28, 63, 45>>,
       <<64, 39, 46, 55, 19, 43, 10, 48, 40, 42, 44, 73, 47, 38, 30, 41, 29, 28, 45, 1>>,
       <<56, 37, 39, 46, 74, 43, 45, 11, 48, 40, 42, 44, 47, 2, 30, 29, 41, 20, 28, 65>>,
       <<37, 66, 46, 21, 43, 12, 48, 40, 42, 44, 47, 38, 75, 30, 57, 41, 29, 28, 3, 45>>,
       <<37, 33, 4, 39, 32, 31, 51, 50, 43, 76, 42, 44, 49, 67, 38, 22, 58, 13, 41, 45>>,
       <<37, 14, 33, 59, 39, 32, 31, 51, 50, 43, 40, 42, 44, 5, 49, 38, 23, 77, 68, 45>>,
       <<37, 6, 39, 32, 51, 31, 50, 43, 45, 15, 69, 40, 44, 78, 49, 38, 24, 41, 60, 33>>,
       <<37, 35, 25, 39, 34, 52, 40, 42, 44, 38, 7, 61, 41, 53, 16, 36, 54, 79, 70, 45>>,
       <<37, 35, 39, 34, 62, 43, 80, 17, 71, 52, 40, 42, 26, 38, 53, 41, 8, 36, 54, 45>>,
       <<37, 18, 81, 35, 39, 34, 9, 72, 43, 52, 40, 42, 44, 38, 27, 41, 53, 36, 54, 63>>,
       <<37, 64, 39, 51, 55, 50, 19, 52, 10, 48, 73, 49, 47, 38, 30, 53, 29, 54, 28, 1>>,
       <<56, 37, 39, 51, 46, 50, 74, 11, 52, 48, 49, 38, 2, 30, 29, 53, 20, 54, 28, 65>>,
       <<37, 66, 39, 51, 46, 50, 21, 52, 12, 49, 47, 38, 75, 30, 57, 53, 29, 54, 28, 3>>,
       <<4, 32, 31, 46, 51, 50, 76, 52, 48, 40, 42, 47, 67, 22, 58, 13, 53, 41, 54, 33>>,
       <<14, 59, 32, 51, 46, 31, 52, 48, 40, 42, 5, 49, 47, 23, 77, 41, 53, 68, 54, 33>>,
       <<6, 32, 46, 31, 50, 52, 15, 48, 40, 42, 69, 78, 49, 47, 24, 53, 41, 60, 54, 33>>,
       <<35, 25, 51, 46, 50, 34, 43, 48, 44, 49, 47, 7, 61, 53, 16, 36, 54, 79, 70, 45>>,
       <<35, 51, 46, 50, 34, 62, 43, 80, 17, 52, 71, 48, 44, 49, 47, 26, 8, 36, 54, 45>>,
       <<18, 81, 35, 51, 46, 50, 9, 34, 72, 43, 52, 48, 44, 49, 47, 27, 53, 36, 63, 45>>,
       <<37, 56, 59, 66, 64, 46, 74, 19, 62, 10, 73, 75, 61, 57, 58, 60, 28, 63, 65, 1>>,
       <<59, 66, 64, 55, 74, 62, 11, 73, 47, 38, 75, 61, 2, 57, 58, 29, 60, 20, 63, 65>>,
       <<56, 59, 66, 64, 39, 55, 21, 74, 62, 12, 48, 73, 3, 75, 61, 30, 58, 60, 63, 65>>,
       <<56, 59, 4, 31, 55, 62, 76, 69, 40, 78, 49, 67, 22, 61, 57, 13, 77, 60, 68, 63>>,
       <<56, 14, 32, 50, 55, 62, 76, 69, 5, 78, 67, 23, 61, 57, 58, 77, 41, 60, 68, 63>>,
       <<56, 59, 6, 51, 55, 62, 76, 15, 69, 42, 78, 67, 61, 57, 58, 24, 77, 68, 63, 33>>,
       <<56, 81, 59, 25, 55, 34, 72, 43, 62, 80, 70, 52, 71, 7, 57, 58, 60, 16, 79, 63>>,
       <<56, 81, 63, 59, 35, 55, 72, 80, 17, 71, 44, 26, 61, 57, 58, 53, 60, 8, 79, 70>>,
       <<56, 18, 81, 59, 55, 9, 72, 62, 80, 71, 61, 27, 57, 58, 60, 36, 54, 79, 70, 45>>,
       <<37, 56, 66, 46, 55, 74, 72, 19, 71, 10, 69, 73, 67, 75, 57, 68, 28, 70, 65, 1>>,
       <<56, 66, 64, 55, 74, 72, 11, 71, 69, 73, 47, 67, 38, 75, 2, 57, 29, 20, 68, 70>>,
       <<56, 64, 39, 55, 21, 72, 74, 71, 12, 48, 69, 73, 67, 3, 75, 30, 57, 68, 70, 65>>,
       <<59, 66, 64, 4, 31, 72, 76, 71, 69, 40, 78, 49, 22, 58, 13, 77, 60, 68, 70, 65>>,
       <<14, 59, 66, 64, 32, 50, 72, 76, 71, 69, 5, 78, 67, 23, 58, 77, 41, 60, 70, 65>>,
       <<59, 6, 66, 64, 51, 72, 76, 71, 15, 42, 78, 67, 65, 58, 24, 77, 60, 68, 70, 33>>,
       <<81, 66, 64, 25, 34, 72, 43, 62, 80, 52, 71, 69, 67, 7, 61, 16, 68, 79, 63, 65>>,
       <<81, 66, 64, 35, 72, 62, 80, 70, 17, 69, 44, 26, 67, 61, 53, 8, 68, 79, 63, 65>>,
       <<18, 81, 63, 66, 64, 9, 62, 80, 71, 69, 67, 65, 61, 27, 36, 68, 54, 79, 70, 45>>,
       <<37, 56, 81, 66, 64, 46, 55, 74, 19, 80, 76, 10, 28, 78, 75, 57, 77, 79, 65, 1>>,
       <<56, 81, 66, 64, 55, 80, 76, 11, 73, 47, 78, 38, 75, 2, 57, 77, 29, 20, 79, 65>>,
       <<56, 81, 66, 64, 39, 55, 21, 74, 80, 76, 12, 48, 73, 78, 30, 57, 77, 79, 3, 65>>,
       <<81, 59, 4, 31, 74, 80, 69, 40, 73, 49, 78, 67, 22, 75, 58, 13, 77, 60, 68, 79>>,
       <<14, 81, 59, 32, 50, 74, 80, 76, 69, 5, 73, 78, 67, 75, 23, 58, 41, 60, 68, 79>>,
       <<81, 59, 6, 51, 74, 80, 76, 15, 69, 42, 73, 67, 75, 58, 24, 77, 60, 68, 79, 33>>,
       <<81, 25, 34, 74, 72, 43, 62, 80, 70, 76, 52, 71, 73, 78, 7, 75, 61, 77, 16, 63>>,
       <<81, 35, 74, 72, 62, 70, 17, 76, 71, 44, 73, 78, 26, 75, 61, 77, 53, 8, 79, 63>>,
       <<18, 9, 74, 72, 62, 80, 70, 76, 71, 73, 78, 75, 61, 27, 77, 36, 54, 79, 63, 45>>
    >>
>>
\* Iterating over a set of squares: its elements in the order of the table
\* (an element the table does not hold comes after those it holds)
IterateSet(set, order) ==
    SelectSeq(order, LAMBDA x : x \in set) \o
    SelectSeq(squares, LAMBDA x : x \in set /\ ~Contains(order, x))
\* for peer in self.peers[square], in a process started with PYTHONHASHSEED = seed
\* (a seed past the last table takes the tables round again)
PeerOrder(seed, s) ==
    IterateSet(peers[s], peers_iteration[(seed % Len(peers_iteration)) + 1][s])
\* for peer in PEERS[square], in the same process
CpPeerOrder(seed, s) ==
    IterateSet(PEERS[s], PEERS_iteration[(seed % Len(PEERS_iteration)) + 1][s])
\* the hash seeds considered
MaxSeed == 1
Seeds == 0..MaxSeed
peer_order == [seed \in Seeds |-> Table([s \in SeqToSet(squares) |-> PeerOrder(seed, s) \o <<>>])]
PeerIter(seed, s) == peer_order[seed][s]
PEER_ORDER == [seed \in Seeds |-> Table([s \in SeqToSet(SQUARES) |-> CpPeerOrder(seed, s) \o <<>>])]
CpPeerIter(seed, s) == PEER_ORDER[seed][s]

----------------------------------------------------------------------------
(* Boards, and the solver as a machine with an explicit call stack           *)
(*                                                                         *)
(* assign_value, remove_value, propagate_constraints and _search call one  *)
(* another recursively and mutate the board in place.  The machine state   *)
(* st holds the solver's attributes (seed: the iteration order of          *)
(* self.peers; assignments; backtracks), the board dict being mutated, the *)
(* puzzle, and the stack of active calls.  A frame is one active call      *)
(* and the position of its loop:                                           *)
(*   pc "solve"      solve or solve_with_cp_and_backtracking (value 0 or   *)
(*                   1), waiting for the call named by phase               *)
(*   pc "propagate"  propagate_constraints, at item i of puzzle.items()    *)
(*   pc "assign"     assign_value(square, value), at element i of          *)
(*                   other_values (list)                                   *)
(*   pc "peers"      remove_value(square, value), in the naked-single loop *)
(*                   at element i of the peers (list), removing final      *)
(*   pc "units"      remove_value(square, value), in the hidden-single     *)
(*                   loop at unit i                                        *)
(*   pc "search"     _search(board), trying element i of the values (list) *)
(*                   of square; phase names the call it waits for          *)
(* mode "go"  : the top frame runs on from its position;                   *)
(* mode "back": the call made by the top frame has just returned ret       *)
(* (TRUE for a truthy value, that is the board; FALSE for False); last is  *)
(* the function that returned.                                             *)
(* out: "new" before the first call, "running" during a call, and what the *)
(* call gave once it ended: "grid" (result is the grid), "None", or        *)
(* "ValueError" (raised).                                                  *)
(***************************************************************************)

\* generate_board: {s: ALLOWED_NUMBERS for s in squares}
generate_board == Table([s \in SeqToSet(squares) |-> ALLOWED_NUMBERS])

NoList == <<>>
NoBoard == <<>>
NoGrid == <<>>
Frame(pc, phase, square, value, final, list, i, board) ==
    [pc |-> pc, phase |-> phase, square |-> square, value |-> value,
     final |-> final, list |-> list, i |-> i, board |-> board]

Top(st) == st.stack[Len(st.stack)]
Pop(stack) == SubSeq(stack, 1, Len(stack) - 1)
Push(st, frame) == [st EXCEPT !.stack = Append(@, frame), !.mode = "go"]
\* the top frame moves to position i of its loop
Goto(st, i) == [st EXCEPT !.stack[Len(st.stack)].i = i, !.mode = "go"]
\* the active call (function fn) returns ret to its caller
Return(st, fn, ret) ==
    [st EXCEPT !.stack = Pop(@), !.mode = "back", !.ret = ret, !.last = fn]
\* a call of fn made by the top frame returns ret before it has a frame
ReturnAtOnce(st, fn, ret) == [st EXCEPT !.mode = "back", !.ret = ret, !.last = fn]

\* (mutant) assign_value that counts a backtrack for an assignment
assign_value_counts_backtrack(st, square, value) ==
    LET other_values == Replace(st.board[square], value)
    IN  Push([st EXCEPT !.backtracks = @ + 1],
             Frame("assign", "", square, value, 0, other_values, 1, NoBoard))

\* (mutant) assign_value that does not count the assignment of a digit to a
\* cell that holds this digit alone already
assign_value_skips_solved(st, square, value) ==
    LET other_values == Replace(st.board[square], value)
    IN  Push([st EXCEPT !.assignments = IF other_values = <<>> THEN @ ELSE @ + 1],
             Frame("assign", "", square, value, 0, other_values, 1, NoBoard))

\* assign_value(board, square, value), called by the top frame
assign_value(st, square, value) ==
    LET other_values == Replace(st.board[square], value)
    IN  Push([st EXCEPT !.assignments = @ + 1],
             Frame("assign", "", square, value, 0, other_values, 1, NoBoard))

\* (mutant) the early return of remove_value is missing
AlreadyRemovedNever(board, square, value) == FALSE

\* remove_value: if value not in board[square]: return True
AlreadyRemoved(board, square, value) == ~Contains(board[square], value)

\* (mutant) remove_value without the naked-single elimination
remove_value_no_peers(st, square, value) ==
    IF AlreadyRemoved(st.board, square, value) THEN ReturnAtOnce(st, "remove_value", TRUE)
    ELSE LET st1 == [st EXCEPT !.board[square] = Replace(@, value)]
         IN  IF Len(st1.board[square]) = 0
             THEN ReturnAtOnce([st1 EXCEPT !.backtracks = @ + 1], "remove_value", FALSE)
             ELSE Push(st1, Frame("units", "", square, value, 0, NoList, 1, NoBoard))

\* (mutant) remove_value that takes an emptied candidate set for a success
remove_value_no_empty_check(st, square, value) ==
    IF AlreadyRemoved(st.board, square, value) THEN ReturnAtOnce(st, "remove_value", TRUE)
    ELSE LET st1 == [st EXCEPT !.board[square] = Replace(@, value)]
         IN  IF Len(st1.board[square]) = 0
             THEN ReturnAtOnce(st1, "remove_value", TRUE)
             ELSE IF Len(st1.board[square]) = 1
             THEN Push(st1, Frame("peers", "", square, value, st1.board[square][1],
                                  PeerIter(st1.seed, square), 1, NoBoard))
             ELSE Push(st1, Frame("units", "", square, value, 0, NoList, 1, NoBoard))

\* (mutant) remove_value that gives an emptied cell all its digits back
remove_value_refills(st, square, value) ==
    IF AlreadyRemoved(st.board, square, value) THEN ReturnAtOnce(st, "remove_value", TRUE)
    ELSE LET st1 == [st EXCEPT !.board[square] = Replace(@, value)]
         IN  IF Len(st1.board[square]) = 0
             THEN ReturnAtOnce([st1 EXCEPT !.backtracks = @ + 1,
                                           !.board[square] = ALLOWED_NUMBERS],
                               "remove_value", FALSE)
             ELSE IF Len(st1.board[square]) = 1
             THEN Push(st1, Frame("peers", "", square, value, st1.board[square][1],
                                  PeerIter(st1.seed, square), 1, NoBoard))
             ELSE Push(st1, Frame("units", "", square, value, 0, NoList, 1, NoBoard))

\* remove_value(board, square, value), called by the top frame: the code up
\* to the first loop it enters
remove_value(st, square, value) ==
    IF AlreadyRemoved(st.board, square, value) THEN ReturnAtOnce(st, "remove_value", TRUE)
    ELSE LET st1 == [st EXCEPT !.board[square] = Replace(@, value)]
         IN  IF Len(st1.board[square]) = 0
             THEN ReturnAtOnce([st1 EXCEPT !.backtracks = @ + 1], "remove_value", FALSE)
             ELSE IF Len(st1.board[square]) = 1
             THEN Push(st1, Frame("peers", "", square, value, st1.board[square][1],
                                  PeerIter(st1.seed, square), 1, NoBoard))
             ELSE Push(st1, Frame("units", "", square, value, 0, NoList, 1, NoBoard))

\* The position a loop of the top frame runs on from: the next element when
\* the call made for element i has returned a truthy value
Position(st) == IF st.mode = "back" THEN Top(st).i + 1 ELSE Top(st).i

\* The first of the positions hits of a list of n elements, n + 1 if there is
\* none
FirstFrom(hits, n) ==
    IF hits = {} THEN n + 1
    ELSE CHOOSE j \in hits : \A k \in hits : j <= k

\* (mutant) assign_value with any() for all(): it returns the board after
\* the first removal that succeeds
assign_value_loop_any(st) ==
    LET f == Top(st)
        j == Position(st)
    IN  IF st.mode = "back" /\ st.ret THEN Return(st, "assign_value", TRUE)
        ELSE IF j > Len(f.list) THEN Return(st, "assign_value", FALSE)
        ELSE IF AlreadyRemoved(st.board, f.square, f.list[j])
        THEN Return(st, "assign_value", TRUE)
        ELSE remove_value(Goto(st, j), f.square, f.list[j])

\* (mutant) assign_value that counts a backtrack when a removal has failed
assign_value_loop_counts_failure(st) ==
    LET f == Top(st)
        j == FirstFrom({k \in Position(st)..Len(f.list) :
                           ~AlreadyRemoved(st.board, f.square, f.list[k])}, Len(f.list))
    IN  IF st.mode = "back" /\ ~st.ret
        THEN Return([st EXCEPT !.backtracks = @ + 1], "assign_value", FALSE)
        ELSE IF j > Len(f.list) THEN Return(st, "assign_value", TRUE)
        ELSE remove_value(Goto(st, j), f.square, f.list[j])

\* assign_value: all(self.remove_value(board, square, val) for val in
\* other_values) and board.  The values no longer in board[square] are passed
\* over in the same step: remove_value returns True for them at once.
assign_value_loop(st) ==
    LET f == Top(st)
        j == FirstFrom({k \in Position(st)..Len(f.list) :
                           ~AlreadyRemoved(st.board, f.square, f.list[k])}, Len(f.list))
    IN  IF st.mode = "back" /\ ~st.ret THEN Return(st, "assign_value", FALSE)
        ELSE IF j > Len(f.list) THEN Return(st, "assign_value", TRUE)
        ELSE remove_value(Goto(st, j), f.square, f.list[j])

\* remove_value: if not all(self.remove_value(board, peer, final_value)
\* for peer in self.peers[square]): return False; then on to the units.
\* The peers that do not hold final_value are passed over in the same step.
remove_value_peers(st) ==
    LET f == Top(st)
        j == FirstFrom({k \in Position(st)..Len(f.list) :
                           ~AlreadyRemoved(st.board, f.list[k], f.final)}, Len(f.list))
    IN  IF st.mode = "back" /\ ~st.ret THEN Return(st, "remove_value", FALSE)
        ELSE IF j > Len(f.list)
        THEN [st EXCEPT !.stack[Len(st.stack)] =
                            Frame("units", "", f.square, f.value, 0, NoList, 1, NoBoard),
                        !.mode = "go"]
        ELSE remove_value(Goto(st, j), f.list[j], f.final)

\* places = [s for s in unit if value in board[s]]
Places(board, unit, value) == SelectSeq(unit, LAMBDA s : Contains(board[s], value))

\* (mutant) remove_value without the hidden-single assignment
remove_value_units_no_assign(st) ==
    LET f == Top(st)
        j == FirstFrom({k \in Position(st)..Len(units[f.square]) :
                           Len(Places(st.board, units[f.square][k], f.value)) = 0},
                       Len(units[f.square]))
    IN  IF st.mode = "back" /\ ~st.ret THEN Return(st, "remove_value", FALSE)
        ELSE IF j > Len(units[f.square]) THEN Return(st, "remove_value", TRUE)
        ELSE Return([st EXCEPT !.backtracks = @ + 1], "remove_value", FALSE)

\* remove_value: for unit in self.units[square]: ...; return True.
\* The units with several places, or with one that is solved, are passed over
\* in the same step.
remove_value_units(st) ==
    LET f == Top(st)
        j == FirstFrom({k \in Position(st)..Len(units[f.square]) :
                           LET places == Places(st.board, units[f.square][k], f.value)
                           IN  \/ Len(places) = 0
                               \/ Len(places) = 1 /\ Len(st.board[places[1]]) > 1},
                       Len(units[f.square]))
    IN  IF st.mode = "back" /\ ~st.ret THEN Return(st, "remove_value", FALSE)
        ELSE IF j > Len(units[f.square]) THEN Return(st, "remove_value", TRUE)
        ELSE LET places == Places(st.board, units[f.square][j], f.value)
             IN  IF Len(places) = 0
                 THEN Return([st EXCEPT !.backtracks = @ + 1], "remove_value", FALSE)
                 ELSE assign_value(Goto(st, j), places[1], f.value)

\* propagate_constraints(puzzle, board), called by the top frame
propagate_constraints(st) ==
    Push(st, Frame("propagate", "", 0, 0, 0, squares, 1, NoBoard))

\* (mutant) propagate_constraints that returns the board after the first clue
propagate_constraints_loop_first_clue(st) ==
    LET f == Top(st)
        j == FirstFrom({k \in Position(st)..Len(f.list) :
                           Contains(ALLOWED_NUMBERS, st.puzzle[f.list[k]])}, Len(f.list))
    IN  IF st.mode = "back" /\ ~st.ret THEN Return(st, "propagate_constraints", FALSE)
        ELSE IF st.mode = "back" \/ j > Len(f.list)
        THEN Return(st, "propagate_constraints", TRUE)
        ELSE assign_value(Goto(st, j), f.list[j], st.puzzle[f.list[j]])

\* (mutant) propagate_constraints that goes on to the next clue when an
\* assignment has failed
propagate_constraints_loop_goes_on(st) ==
    LET f == Top(st)
        j == FirstFrom({k \in Position(st)..Len(f.list) :
                           Contains(ALLOWED_NUMBERS, st.puzzle[f.list[k]])}, Len(f.list))
    IN  IF j > Len(f.list) THEN Return(st, "propagate_constraints", st.ret)
        ELSE assign_value(Goto(st, j), f.list[j], st.puzzle[f.list[j]])

\* for square, value in puzzle.items(): ...; return board.
\* puzzle.items() runs in insertion order, which solve makes the order of
\* squares.  The items whose value is not in ALLOWED_NUMBERS are passed over.
propagate_constraints_loop(st) ==
    LET f == Top(st)
        j == FirstFrom({k \in Position(st)..Len(f.list) :
                           Contains(ALLOWED_NUMBERS, st.puzzle[f.list[k]])}, Len(f.list))
    IN  IF st.mode = "back" /\ ~st.ret THEN Return(st, "propagate_constraints", FALSE)
        ELSE IF j > Len(f.list) THEN Return(st, "propagate_constraints", TRUE)
        ELSE assign_value(Goto(st, j), f.list[j], st.puzzle[f.list[j]])

----------------------------------------------------------------------------
(* Search *)

\* (mutant) tuples compared with the labels in descending order
TupleLessLastLabel(n1, s1, n2, s2) == n1 < n2 \/ (n1 = n2 /\ s1 > s2)

\* (n1, s1) < (n2, s2) as Python compares tuples
TupleLess(n1, s1, n2, s2) == n1 < n2 \/ (n1 = n2 /\ s1 < s2)

\* the squares s of self.squares with len(board[s]) > 1
Unsolved(board) == {s \in SeqToSet(squares) : Len(board[s]) > 1}

\* min((len(board[s]), s) for s in self.squares if len(board[s]) > 1)
MinSquare(board) ==
    CHOOSE s \in Unsolved(board) :
        \A t \in Unsolved(board) \ {s} : TupleLess(Len(board[s]), s, Len(board[t]), t)

\* min() of an empty sequence raises ValueError, which nothing in the solver
\* catches: every active call is abandoned and the exception leaves solve.
Raise(st, exc) ==
    [st EXCEPT !.stack = <<>>, !.mode = "back", !.ret = FALSE, !.out = exc,
               !.result = NoGrid]

\* (mutant) _search without the test that every square is solved
search_no_solved_test(st, is_False) ==
    IF is_False THEN ReturnAtOnce(st, "_search", FALSE)
    ELSE IF Unsolved(st.board) = {}
    THEN Raise(st, "ValueError")
    ELSE LET square == MinSquare(st.board)
         IN  Push(st, Frame("search", "", square, 0, 0, st.board[square], 1, st.board))

\* _search(board), called by the top frame; is_False: the board is False
search(st, is_False) ==
    IF is_False THEN ReturnAtOnce(st, "_search", FALSE)
    ELSE IF \A k \in 1..Len(squares) : Len(st.board[squares[k]]) = 1
    THEN ReturnAtOnce(st, "_search", TRUE)
    ELSE IF Unsolved(st.board) = {}
    THEN Raise(st, "ValueError")
    ELSE LET square == MinSquare(st.board)
         IN  Push(st, Frame("search", "", square, 0, 0, st.board[square], 1, st.board))

\* (mutant) _search that gives up after the first value of the square
search_loop_first_value(st) ==
    LET f == Top(st)
        n == Len(st.stack)
    IN  IF st.mode = "back" /\ f.phase = "assign" /\ st.ret
        THEN search([st EXCEPT !.stack[n].phase = "search"], FALSE)
        ELSE IF st.mode = "back" /\ f.phase = "search" /\ st.ret
        THEN Return(st, "_search", TRUE)
        ELSE IF Position(st) > 1
        THEN Return(st, "_search", FALSE)
        ELSE assign_value([st EXCEPT !.board = f.board, !.stack[n].phase = "assign",
                                     !.stack[n].i = Position(st)],
                          f.square, f.list[Position(st)])

\* (mutant) _search that searches on from the board it was given, not from
\* the board with the guess assigned
search_loop_same_board(st) ==
    LET f == Top(st)
        n == Len(st.stack)
    IN  IF st.mode = "back" /\ f.phase = "assign" /\ st.ret
        THEN search([st EXCEPT !.stack[n].phase = "search", !.board = f.board], FALSE)
        ELSE IF st.mode = "back" /\ f.phase = "search" /\ st.ret
        THEN Return(st, "_search", TRUE)
        ELSE IF Position(st) > Len(f.list)
        THEN Return(st, "_search", FALSE)
        ELSE assign_value([st EXCEPT !.board = f.board, !.stack[n].phase = "assign",
                                     !.stack[n].i = Position(st)],
                          f.square, f.list[Position(st)])

\* (mutant) _search that assigns on the board it was given, without a copy
search_loop_no_copy(st) ==
    LET f == Top(st)
        n == Len(st.stack)
    IN  IF st.mode = "back" /\ f.phase = "assign" /\ st.ret
        THEN search([st EXCEPT !.stack[n].phase = "search", !.stack[n].board = st.board],
                    FALSE)
        ELSE IF st.mode = "back" /\ f.phase = "search" /\ st.ret
        THEN Return(st, "_search", TRUE)
        ELSE IF Position(st) > Len(f.list)
        THEN Return(st, "_search", FALSE)
        ELSE assign_value([st EXCEPT !.stack[n].board = st.board,
                                     !.stack[n].phase = "assign",
                                     !.stack[n].i = Position(st)],
                          f.square, f.list[Position(st)])

\* (mutant) _search that tries the next value after a solution was found
search_loop_no_short_circuit(st) ==
    LET f == Top(st)
        n == Len(st.stack)
    IN  IF st.mode = "back" /\ f.phase = "assign" /\ st.ret
        THEN search([st EXCEPT !.stack[n].phase = "search"], FALSE)
        ELSE IF Position(st) > Len(f.list)
        THEN Return(st, "_search", st.mode = "back" /\ f.phase = "search" /\ st.ret)
        ELSE assign_value([st EXCEPT !.board = f.board, !.stack[n].phase = "assign",
                                     !.stack[n].i = Position(st)],
                          f.square, f.list[Position(st)])

\* for value in board[square]: new_board = copy; if assign_value(new_board,
\* ...): result = _search(new_board); if result: return result.  return False.
\* The frame keeps the board the call was given; st.board is new_board (and
\* the board returned when a solution is).
search_loop(st) ==
    LET f == Top(st)
        n == Len(st.stack)
    IN  IF st.mode = "back" /\ f.phase = "assign" /\ st.ret
        THEN search([st EXCEPT !.stack[n].phase = "search"], FALSE)
        ELSE IF st.mode = "back" /\ f.phase = "search" /\ st.ret
        THEN Return(st, "_search", TRUE)
        ELSE IF Position(st) > Len(f.list)
        THEN Return(st, "_search", FALSE)
        ELSE assign_value([st EXCEPT !.board = f.board, !.stack[n].phase = "assign",
                                     !.stack[n].i = Position(st)],
                          f.square, f.list[Position(st)])

----------------------------------------------------------------------------
(* solve and solve_with_cp_and_backtracking *)

\* str(val) if val != 0 else '0'
Str(val) == IF val # 0 THEN val ELSE 0

\* int(str) for a string of digits
RECURSIVE ParseInt(_)
ParseInt(str) == IF Len(str) = 1 THEN str[1]
                 ELSE 10 * ParseInt(SubSeq(str, 1, Len(str) - 1)) + str[Len(str)]

\* (mutant) the puzzle built with rows and columns exchanged
GridToPuzzleTransposed(grid) ==
    [s \in {Sq(ROWS[i], COLS[j]) : i \in 1..9, j \in 1..9} |->
        LET i == CHOOSE i \in 1..9 : \E j \in 1..9 : Sq(ROWS[i], COLS[j]) = s
            j == CHOOSE j \in 1..9 : Sq(ROWS[i], COLS[j]) = s
        IN  Str(grid[j][i])]

\* puzzle[self.ROWS[i] + self.COLS[j]] = str(val) for every i, j
GridToPuzzle(grid) ==
    [s \in {Sq(ROWS[i], COLS[j]) : i \in 1..9, j \in 1..9} |->
        LET i == CHOOSE i \in 1..9 : \E j \in 1..9 : Sq(ROWS[i], COLS[j]) = s
            j == CHOOSE j \in 1..9 : Sq(ROWS[i], COLS[j]) = s
        IN  Str(grid[i][j])]

\* [[int(solution[ROWS[i] + COLS[j]]) for j in range(9)] for i in range(9)]
BoardToGrid(solution) ==
    [i \in 1..9 |-> [j \in 1..9 |-> ParseInt(solution[Sq(ROWS[i], COLS[j])])]]

\* SudokuSolver(): the attributes that change, or differ between processes
NewSolver(seed) ==
    [seed |-> seed, assignments |-> 0, backtracks |-> 0, puzzle |-> <<>>,
     board |-> NoBoard, mode |-> "back", ret |-> TRUE, last |-> "", out |-> "new",
     result |-> NoGrid, stack |-> <<>>, grid |-> NoGrid, arg |-> <<>>]

\* (mutant) the counters are not reset
ResetMetricsMissing(self) == self

\* self.assignments = 0; self.backtracks = 0
ResetMetrics(self) == [self EXCEPT !.assignments = 0, !.backtracks = 0]

\* The entry of solve (method 0) and solve_with_cp_and_backtracking (method 1),
\* up to the call of propagate_constraints.  The two build the same puzzle: one
\* from a grid of ints (str(val)), the other from a grid of one-character strings.
Enter(self, grid, method) ==
    LET self0 == ResetMetrics(self)
    IN  propagate_constraints(
            [self0 EXCEPT !.puzzle = GridToPuzzle(grid), !.board = generate_board,
                          !.mode = "go", !.ret = TRUE, !.last = "", !.out = "running",
                          !.result = NoGrid, !.grid = grid, !.arg = <<>>,
                          !.stack = <<Frame("solve", "propagate", 0, method, 0,
                                            NoList, 0, NoBoard)>>])

solve(self, grid) == Enter(self, grid, 0)
solve_with_cp_and_backtracking(self, grid) == Enter(self, grid, 1)

\* (mutant) solve that writes the solution into the grid it was given
FinishInPlace(st) ==
    IF st.ret
    THEN [st EXCEPT !.stack = <<>>, !.out = "grid", !.result = BoardToGrid(st.board),
                    !.grid = BoardToGrid(st.board)]
    ELSE [st EXCEPT !.stack = <<>>, !.out = "None", !.result = NoGrid]

\* the end of the call: the solution converted to a grid, or None.  The list
\* the caller passed (field grid) is only read, at lines 97-100.
Finish(st) ==
    IF st.ret
    THEN [st EXCEPT !.stack = <<>>, !.out = "grid", !.result = BoardToGrid(st.board)]
    ELSE [st EXCEPT !.stack = <<>>, !.out = "None", !.result = NoGrid]

\* solve after propagate_constraints returned (board = what it returned):
\* solution = self._search(board), then the conversion.
\* solve_with_cp_and_backtracking returns None before the search if not board.
solve_resume(st) ==
    LET f == Top(st)
    IN  IF f.phase = "propagate"
        THEN IF f.value = 1 /\ ~st.ret THEN Finish(st)
             ELSE search([st EXCEPT !.stack[Len(st.stack)].phase = "search"], ~st.ret)
        ELSE Finish(st)

\* A caller other than solve calls a method of the solver by itself:
\* propagate_constraints(puzzle, board) with the puzzle of a grid and the board
\* of generate_board() (as solve does, but nothing is reset and no search
\* follows), the same call again on the board the instance holds, or
\* assign_value(board, square, value) on that board.
CallFrame == Frame("call", "", 0, 0, 0, NoList, 0, NoBoard)
Begin(self) ==
    [self EXCEPT !.mode = "go", !.ret = TRUE, !.last = "", !.out = "running",
                 !.result = NoGrid, !.arg = <<>>, !.stack = <<CallFrame>>]
call_propagate_constraints(self, grid) ==
    propagate_constraints([Begin(self) EXCEPT !.puzzle = GridToPuzzle(grid),
                                              !.board = generate_board,
                                              !.grid = grid])
call_propagate_constraints_again(self) == propagate_constraints(Begin(self))
call_assign_value(self, square, value) ==
    assign_value([Begin(self) EXCEPT !.arg = <<square, value>>], square, value)

\* the method returns to that caller: the board (which is truthy), or False
call_resume(st) ==
    [st EXCEPT !.stack = <<>>, !.out = IF st.ret THEN "board" ELSE "False"]

----------------------------------------------------------------------------
(* sudoku_cp: the module-level solver.  The same machine runs it, with     *)
(* frames of its own:                                                      *)
(*   pc "cp_main"      the caller (__main__), waiting for the call named   *)
(*                     by phase                                            *)
(*   pc "cp_propagate" propagate_constraints, at item i of puzzle.items()  *)
(*   pc "cp_assign"    assign_value(square, value), at element i of        *)
(*                     values_to_eliminate (list); value is a string       *)
(*   pc "cp_peers"     remove_value, in the loop over PEERS[square]        *)
(*   pc "cp_units"     remove_value, in the loop over UNITS[square]        *)
(*   pc "dfs"          depth_first_search(values), trying element i of the *)
(*                     string values[s] (list); board records the          *)
(*                     candidate sets the call was entered with            *)
(* A value of the puzzle is a string here (a sequence of digits): the      *)
(* puzzle depth_first_search builds maps every square to its candidates.   *)
(* The dict values is st.board: depth_first_search passes it on as the     *)
(* board of propagate_constraints, which assigns in it.                    *)

\* sub in str, for strings
IsSubstring(sub, str) ==
    \E k \in 0..(Len(str) - Len(sub)) : SubSeq(str, k + 1, k + Len(sub)) = sub

\* str.replace(sub, ''): the occurrences of sub are taken out, from the left
RECURSIVE ReplaceStr(_, _)
ReplaceStr(str, sub) ==
    IF sub = <<>> \/ Len(str) < Len(sub) THEN str
    ELSE IF SubSeq(str, 1, Len(sub)) = sub
    THEN ReplaceStr(SubSeq(str, Len(sub) + 1, Len(str)), sub)
    ELSE <<Head(str)>> \o ReplaceStr(Tail(str), sub)

\* the module when it has been loaded: the global counters cp_assignments and
\* cp_backtracks (lines 309-310), the attributes assignments and backtracks of
\* depth_first_search (lines 291-294), and the order PEERS is iterated in
NewModule(seed) ==
    [seed |-> seed, cp_assignments |-> 0, cp_backtracks |-> 0, assignments |-> 0,
     backtracks |-> 0, puzzle |-> <<>>, board |-> NoBoard, mode |-> "back",
     ret |-> TRUE, last |-> "", out |-> "new", result |-> NoBoard, stack |-> <<>>]

\* assign_value(board, square, value), called by the top frame
cp_assign_value(st, square, value) ==
    LET values_to_eliminate == ReplaceStr(st.board[square], value)
    IN  Push([st EXCEPT !.cp_assignments = @ + 1],
             Frame("cp_assign", "", square, value, 0, values_to_eliminate, 1, NoBoard))

\* remove_value(board, square, value_to_eliminate), called by the top frame:
\* the code up to the first loop it enters
cp_remove_value(st, square, value_to_eliminate) ==
    IF ~Contains(st.board[square], value_to_eliminate)
    THEN ReturnAtOnce(st, "remove_value", TRUE)
    ELSE LET st1 == [st EXCEPT !.board[square] = Replace(@, value_to_eliminate)]
         IN  IF Len(st1.board[square]) = 0
             THEN ReturnAtOnce([st1 EXCEPT !.cp_backtracks = @ + 1], "remove_value", FALSE)
             ELSE IF Len(st1.board[square]) = 1
             THEN Push(st1, Frame("cp_peers", "", square, value_to_eliminate,
                                  st1.board[square][1], CpPeerIter(st1.seed, square),
                                  1, NoBoard))
             ELSE Push(st1, Frame("cp_units", "", square, value_to_eliminate, 0,
                                  NoList, 1, NoBoard))

\* assign_value: if all(remove_value(board, square, val) for val in
\* values_to_eliminate): return board; else: cp_backtracks += 1; return False
cp_assign_value_loop(st) ==
    LET f == Top(st)
        j == Position(st)
    IN  IF st.mode = "back" /\ ~st.ret
        THEN Return([st EXCEPT !.cp_backtracks = @ + 1], "assign_value", FALSE)
        ELSE IF j > Len(f.list) THEN Return(st, "assign_value", TRUE)
        ELSE cp_remove_value(Goto(st, j), f.square, f.list[j])

\* remove_value: if not all(remove_value(board, peer, final_value) for peer
\* in PEERS[square]): cp_backtracks += 1; return False; then on to the units
cp_remove_value_peers(st) ==
    LET f == Top(st)
        j == Position(st)
    IN  IF st.mode = "back" /\ ~st.ret
        THEN Return([st EXCEPT !.cp_backtracks = @ + 1], "remove_value", FALSE)
        ELSE IF j > Len(f.list)
        THEN [st EXCEPT !.stack[Len(st.stack)] =
                            Frame("cp_units", "", f.square, f.value, 0, NoList, 1, NoBoard),
                        !.mode = "go"]
        ELSE cp_remove_value(Goto(st, j), f.list[j], f.final)

\* remove_value: for unit in UNITS[square]: ...; return board.  A unit with
\* one place for the value has the value assigned there, solved or not; the
\* units with several places are passed over in the same step.
cp_remove_value_units(st) ==
    LET f == Top(st)
        j == FirstFrom({k \in Position(st)..Len(UNITS[f.square]) :
                           Len(Places(st.board, UNITS[f.square][k], f.value)) <= 1},
                       Len(UNITS[f.square]))
    IN  IF st.mode = "back" /\ ~st.ret
        THEN Return([st EXCEPT !.cp_backtracks = @ + 1], "remove_value", FALSE)
        ELSE IF j > Len(UNITS[f.square]) THEN Return(st, "remove_value", TRUE)
        ELSE LET unit_squares == Places(st.board, UNITS[f.square][j], f.value)
             IN  IF Len(unit_squares) = 0
                 THEN Return([st EXCEPT !.cp_backtracks = @ + 1], "remove_value", FALSE)
                 ELSE cp_assign_value(Goto(st, j), unit_squares[1], <<f.value>>)

\* propagate_constraints(puzzle, board), called by the top frame; the board is
\* st.board
cp_propagate_constraints(st, puzzle) ==
    Push([st EXCEPT !.puzzle = puzzle],
         Frame("cp_propagate", "", 0, 0, 0, SQUARES, 1, NoBoard))

\* for square, value in puzzle.items(): if value in ALLOWED_NUMBERS and not
\* assign_value(board, square, value): return False; return board.
\* value in ALLOWED_NUMBERS is a test for a substring.  The items that fail
\* it are passed over in the same step.
cp_propagate_constraints_loop(st) ==
    LET f == Top(st)
        j == FirstFrom({k \in Position(st)..Len(f.list) :
                           IsSubstring(st.puzzle[f.list[k]], ALLOWED_NUMBERS)},
                       Len(f.list))
    IN  IF st.mode = "back" /\ ~st.ret THEN Return(st, "propagate_constraints", FALSE)
        ELSE IF j > Len(f.list) THEN Return(st, "propagate_constraints", TRUE)
        ELSE cp_assign_value(Goto(st, j), f.list[j], st.puzzle[f.list[j]])

\* depth_first_search(values), called by the top frame; is_False: values is
\* False
depth_first_search(st, is_False) ==
    IF is_False THEN ReturnAtOnce(st, "depth_first_search", FALSE)
    ELSE IF \A k \in 1..Len(SQUARES) : Len(st.board[SQUARES[k]]) = 1
    THEN ReturnAtOnce(st, "depth_first_search", TRUE)
    ELSE IF Unsolved(st.board) = {}
    THEN Raise(st, "ValueError")
    ELSE LET s == MinSquare(st.board)
         IN  Push(st, Frame("dfs", "", s, 0, 0, st.board[s], 1, st.board))

\* for value in values[s]: assignments += 1; result = depth_first_search(
\* propagate_constraints({**values, s: value}, values)); if result: return
\* result; backtracks += 1.  return False.
\* The puzzle is a new dict; the board given to propagate_constraints is values
\* itself, with whatever the trials before have left in it.
depth_first_search_loop(st) ==
    LET f == Top(st)
        n == Len(st.stack)
    IN  IF st.mode = "back" /\ f.phase = "propagate"
        THEN depth_first_search([st EXCEPT !.stack[n].phase = "search"], ~st.ret)
        ELSE IF st.mode = "back" /\ f.phase = "search" /\ st.ret
        THEN Return(st, "depth_first_search", TRUE)
        ELSE LET st1 == IF st.mode = "back" THEN [st EXCEPT !.backtracks = @ + 1] ELSE st
             IN  IF Position(st) > Len(f.list)
                 THEN Return(st1, "depth_first_search", FALSE)
                 ELSE cp_propagate_constraints(
                          [st1 EXCEPT !.assignments = @ + 1,
                                      !.stack[n].phase = "propagate",
                                      !.stack[n].i = Position(st)],
                          [st.board EXCEPT ![f.square] = <<f.list[Position(st)]>>])

\* dict(zip(SQUARES, ''.join(current_grid))): the puzzle of a grid of characters
LoadPuzzle(grid) ==
    [k \in 1..Len(SQUARES) |-> <<grid[((k - 1) \div 9) + 1][((k - 1) % 9) + 1]>>]

\* __main__: depth_first_search(propagate_constraints(puzzle, generate_board())),
\* up to the call of propagate_constraints
cp_main(module, grid) ==
    cp_propagate_constraints(
        [module EXCEPT !.board = Table([s \in SeqToSet(SQUARES) |-> ALLOWED_NUMBERS]),
                       !.mode = "go", !.ret = TRUE, !.last = "", !.out = "running",
                       !.result = NoBoard,
                       !.stack = <<Frame("cp_main", "propagate", 0, 0, 0, NoList, 0,
                                         NoBoard)>>],
        LoadPuzzle(grid))

\* __main__ after propagate_constraints returned, and after depth_first_search
\* returned: the solution is the board, or False
cp_main_resume(st) ==
    LET f == Top(st)
    IN  IF f.phase = "propagate"
        THEN depth_first_search([st EXCEPT !.stack[Len(st.stack)].phase = "search"],
                                ~st.ret)
        ELSE IF st.ret
        THEN [st EXCEPT !.stack = <<>>, !.out = "board", !.result = st.board]
        ELSE [st EXCEPT !.stack = <<>>, !.out = "False", !.result = NoBoard]

----------------------------------------------------------------------------
(* sudoku_backtracking: SudokuBacktracking, the solver by trial alone.     *)
(* The same machine runs it.  The state of an instance has the grid the    *)
(* caller passed (field grid: the list is written in place), the two       *)
(* counters, and the stack of the active calls of solve:                   *)
(*   pc "bt_call"  the caller of solve, waiting for it                     *)
(*   pc "bt"       solve(grid), trying the number i of range(1, 10) at the *)
(*                 empty location list = (row, col)                        *)
(* Rows and columns count from 0 as in the code; the grid is a tuple of    *)
(* tuples that count from 1.                                               *)

None == <<>>

\* is_valid(grid, row, col, num): num is in no cell of the row, of the
\* column, or of the box that starts at (row - row % 3, col - col % 3)
is_valid(grid, row, col, num) ==
    /\ \A x \in 0..8 : grid[row + 1][x + 1] # num
    /\ \A y \in 0..8 : grid[y + 1][col + 1] # num
    /\ LET start_row == row - (row % 3)
           start_col == col - (col % 3)
       IN  \A i \in 0..2, j \in 0..2 : grid[i + start_row + 1][j + start_col + 1] # num

\* find_empty_location(grid): the first (i, j), by rows, with grid[i][j] == 0,
\* or None
find_empty_location(grid) ==
    LET empty == {p \in (0..8) \X (0..8) : grid[p[1] + 1][p[2] + 1] = 0}
    IN  IF empty = {} THEN None
        ELSE CHOOSE p \in empty :
                 \A q \in empty : p[1] < q[1] \/ (p[1] = q[1] /\ p[2] <= q[2])

\* SudokuBacktracking()
NewBacktracking ==
    [assignments |-> 0, backtracks |-> 0, grid |-> NoGrid, mode |-> "back",
     ret |-> TRUE, last |-> "", out |-> "new", stack |-> <<>>]

\* solve(grid), called by the top frame: up to the loop
backtracking_solve(st) ==
    LET empty == find_empty_location(st.grid)
    IN  IF empty = None THEN ReturnAtOnce(st, "solve", TRUE)
        ELSE Push(st, Frame("bt", "", 0, 0, 0, empty, 1, NoBoard))

\* (mutant) solve that leaves the number it tried in the grid when the trial
\* has failed
backtracking_solve_loop_no_reset(st) ==
    LET f == Top(st)
        row == f.list[1]
        col == f.list[2]
    IN  IF st.mode = "back" /\ st.ret THEN Return(st, "solve", TRUE)
        ELSE LET st1 == IF st.mode = "back"
                        THEN [st EXCEPT !.backtracks = @ + 1]
                        ELSE st
                 num == FirstFrom({k \in Position(st)..9 :
                                      is_valid([st1.grid EXCEPT ![row + 1][col + 1] = 0],
                                               row, col, k)}, 9)
             IN  IF num > 9 THEN Return(st1, "solve", FALSE)
                 ELSE backtracking_solve([Goto(st1, num) EXCEPT
                                              !.grid[row + 1][col + 1] = num,
                                              !.assignments = @ + 1])

\* for num in range(1, 10): if self.is_valid(grid, row, col, num):
\* grid[row][col] = num; assignments += 1; if self.solve(grid): return True;
\* grid[row][col] = 0; backtracks += 1.  return False.
\* The numbers that are not valid are passed over in the same step.
backtracking_solve_loop(st) ==
    LET f == Top(st)
        row == f.list[1]
        col == f.list[2]
    IN  IF st.mode = "back" /\ st.ret THEN Return(st, "solve", TRUE)
        ELSE LET st1 == IF st.mode = "back"
                        THEN [st EXCEPT !.grid[row + 1][col + 1] = 0,
                                        !.backtracks = @ + 1]
                        ELSE st
                 num == FirstFrom({k \in Position(st)..9 :
                                      is_valid(st1.grid, row, col, k)}, 9)
             IN  IF num > 9 THEN Return(st1, "solve", FALSE)
                 ELSE backtracking_solve([Goto(st1, num) EXCEPT
                                              !.grid[row + 1][col + 1] = num,
                                              !.assignments = @ + 1])

\* solver.solve(grid) called from outside: the list grid is the one the
\* caller holds
call_backtracking_solve(self, grid) ==
    backtracking_solve([self EXCEPT !.grid = grid, !.mode = "go", !.ret = TRUE,
                                    !.last = "", !.out = "running",
                                    !.stack = <<Frame("bt_call", "", 0, 0, 0, NoList,
                                                      0, NoBoard)>>])

\* solve returns to that caller: True or False
call_backtracking_resume(st) ==
    [st EXCEPT !.stack = <<>>, !.out = IF st.ret THEN "True" ELSE "False"]

----------------------------------------------------------------------------
(* sudoku_benchmark: SudokuBenchmark runs the three solvers.  Its part in  *)
(* the machine is the call of sudoku_cp made by                            *)
(* solve_with_constraint_propagation:                                      *)
(*   pc "bench_cp"  solve_with_constraint_propagation, waiting for the     *)
(*                  call named by phase                                    *)

\* dict_to_2d_list(solution): the rows of the values of the board
dict_to_2d_list(solution) == [r \in 1..9 |-> [c \in 1..9 |-> solution[Sq(r, c)]]]

\* solve_with_constraint_propagation up to the call of propagate_constraints:
\* the puzzle is built from the grid, the board is new, the two global
\* counters of sudoku_cp are set to 0
constraint_propagation_call(module, grid) ==
    cp_propagate_constraints(
        [module EXCEPT !.cp_assignments = 0, !.cp_backtracks = 0,
                       !.board = Table([s \in SeqToSet(SQUARES) |-> ALLOWED_NUMBERS]),
                       !.mode = "go", !.ret = TRUE, !.last = "", !.out = "running",
                       !.result = NoBoard,
                       !.stack = <<Frame("bench_cp", "propagate", 0, 0, 0, NoList, 0,
                                         NoBoard)>>],
        LoadPuzzle(grid))

\* if board: solved = depth_first_search(board); if solved: solved =
\* dict_to_2d_list(solved).  solved is None when the board is False.
constraint_propagation_resume(st) ==
    LET f == Top(st)
    IN  IF f.phase = "propagate"
        THEN IF st.ret
             THEN depth_first_search([st EXCEPT !.stack[Len(st.stack)].phase = "search"],
                                     FALSE)
             ELSE [st EXCEPT !.stack = <<>>, !.out = "None", !.result = NoBoard]
        ELSE IF st.ret
        THEN [st EXCEPT !.stack = <<>>, !.out = "grid",
                        !.result = dict_to_2d_list(st.board)]
        ELSE [st EXCEPT !.stack = <<>>, !.out = "False", !.result = NoBoard]

\* One step of the machine: the top frame runs on
Step(st) ==
    IF st.stack = <<>> THEN st
    ELSE LET pc == Top(st).pc
         IN  CASE pc = "assign" -> assign_value_loop(st)
               [] pc = "peers" -> remove_value_peers(st)
               [] pc = "units" -> remove_value_units(st)
               [] pc = "propagate" -> propagate_constraints_loop(st)
               [] pc = "search" -> search_loop(st)
               [] pc = "solve" -> solve_resume(st)
               [] pc = "call" -> call_resume(st)
               [] pc = "cp_assign" -> cp_assign_value_loop(st)
               [] pc = "cp_peers" -> cp_remove_value_peers(st)
               [] pc = "cp_units" -> cp_remove_value_units(st)
               [] pc = "cp_propagate" -> cp_propagate_constraints_loop(st)
               [] pc = "dfs" -> depth_first_search_loop(st)
               [] pc = "cp_main" -> cp_main_resume(st)
               [] pc = "bt" -> backtracking_solve_loop(st)
               [] pc = "bt_call" -> call_backtracking_resume(st)
               [] pc = "bench_cp" -> constraint_propagation_resume(st)

\* 2^k steps of the machine, fewer if the call ends before
RECURSIVE Run(_, _)
Run(st, k) ==
    IF st.stack = <<>> THEN st
    ELSE IF k = 0 THEN Step(st)
    ELSE Run(Run(st, k - 1), k - 1)

----------------------------------------------------------------------------
(* The grids given to the solver *)

\* a grid (a list of 9 rows of 9 entries) from its 81 entries in reading order
ToGrid(flat) == [i \in 1..9 |-> [j \in 1..9 |-> flat[9 * (i - 1) + j]]]
Cell(r, c) == 9 * (r - 1) + c
RowOf(k) == ((k - 1) \div 9) + 1
ColOf(k) == ((k - 1) % 9) + 1
BoxOf(k) == 3 * ((RowOf(k) - 1) \div 3) + ((ColOf(k) - 1) \div 3) + 1
\* two different cells in one row, one column or one box
SameUnit(k1, k2) ==
    k1 # k2 /\ (RowOf(k1) = RowOf(k2) \/ ColOf(k1) = ColOf(k2) \/ BoxOf(k1) = BoxOf(k2))

\* a full valid grid
Solution1 ==
    <<5, 3, 4, 6, 7, 8, 9, 1, 2,
      6, 7, 2, 1, 9, 5, 3, 4, 8,
      1, 9, 8, 3, 4, 2, 5, 6, 7,
      8, 5, 9, 7, 6, 1, 4, 2, 3,
      4, 2, 6, 8, 5, 3, 7, 9, 1,
      7, 1, 3, 9, 2, 4, 8, 5, 6,
      9, 6, 1, 5, 3, 7, 2, 8, 4,
      2, 8, 7, 4, 1, 9, 6, 3, 5,
      3, 4, 5, 2, 8, 6, 1, 7, 9>>
\* the completion of Hard
Solution2 ==
    <<4, 1, 7, 3, 6, 9, 8, 2, 5,
      6, 3, 2, 1, 5, 8, 9, 4, 7,
      9, 5, 8, 7, 2, 4, 3, 1, 6,
      8, 2, 5, 4, 3, 7, 1, 6, 9,
      7, 9, 1, 5, 8, 6, 4, 3, 2,
      3, 4, 6, 9, 1, 2, 7, 5, 8,
      2, 8, 9, 6, 4, 3, 5, 7, 1,
      5, 7, 3, 2, 9, 1, 6, 8, 4,
      1, 6, 4, 8, 7, 5, 2, 9, 3>>
\* a solution of the grid with no clue
Solution3 ==
    <<1, 2, 3, 4, 5, 6, 7, 8, 9,
      4, 5, 6, 7, 8, 9, 1, 2, 3,
      7, 8, 9, 1, 2, 3, 4, 5, 6,
      2, 3, 1, 6, 7, 4, 8, 9, 5,
      8, 7, 5, 9, 1, 2, 3, 6, 4,
      6, 9, 4, 5, 3, 8, 2, 1, 7,
      3, 1, 7, 2, 6, 5, 9, 4, 8,
      5, 4, 2, 8, 9, 7, 6, 3, 1,
      9, 6, 8, 3, 4, 1, 5, 7, 2>>
\* the spec's canonical easy puzzle, completed by Solution1
Easy ==
    <<5, 3, 0, 0, 7, 0, 0, 0, 0,
      6, 0, 0, 1, 9, 5, 0, 0, 0,
      0, 9, 8, 0, 0, 0, 0, 6, 0,
      8, 0, 0, 0, 6, 0, 0, 0, 3,
      4, 0, 0, 8, 0, 3, 0, 0, 1,
      7, 0, 0, 0, 2, 0, 0, 0, 6,
      0, 6, 0, 0, 0, 0, 2, 8, 0,
      0, 0, 0, 4, 1, 9, 0, 0, 5,
      0, 0, 0, 0, 8, 0, 0, 7, 9>>
\* a 17-clue puzzle that needs guesses, some of them wrong
Hard ==
    <<4, 0, 0, 0, 0, 0, 8, 0, 5,
      0, 3, 0, 0, 0, 0, 0, 0, 0,
      0, 0, 0, 7, 0, 0, 0, 0, 0,
      0, 2, 0, 0, 0, 0, 0, 6, 0,
      0, 0, 0, 0, 8, 0, 4, 0, 0,
      0, 0, 0, 0, 1, 0, 0, 0, 0,
      0, 0, 0, 6, 0, 3, 0, 7, 0,
      5, 0, 0, 2, 0, 0, 0, 0, 0,
      1, 0, 4, 0, 0, 0, 0, 0, 0>>
\* no two equal clues in a unit, and no completion: every guess fails
Unsolvable ==
    <<0, 0, 0, 6, 0, 8, 9, 1, 2,
      6, 7, 0, 1, 9, 0, 3, 0, 0,
      1, 9, 0, 3, 0, 2, 0, 6, 0,
      0, 0, 9, 0, 6, 0, 0, 2, 3,
      4, 0, 6, 0, 0, 3, 7, 0, 1,
      7, 0, 0, 0, 0, 0, 0, 0, 0,
      9, 0, 1, 5, 3, 0, 2, 0, 0,
      2, 8, 7, 4, 1, 9, 6, 3, 0,
      5, 4, 0, 0, 0, 0, 1, 7, 9>>
\* clues without duplicate that leave a unit with no place for a digit
Starved ==
    <<5, 0, 0, 0, 7, 8, 9, 0, 2,
      0, 0, 0, 1, 0, 0, 0, 0, 8,
      2, 9, 0, 3, 0, 0, 5, 0, 7,
      8, 0, 0, 0, 0, 1, 4, 2, 3,
      0, 0, 0, 8, 5, 3, 7, 0, 1,
      0, 1, 3, 9, 2, 4, 0, 5, 0,
      0, 6, 1, 0, 0, 7, 0, 0, 4,
      0, 8, 7, 0, 1, 9, 0, 3, 0,
      0, 0, 0, 0, 8, 0, 0, 7, 9>>
AllBlank == [k \in 1..81 |-> 0]

\* Solution1 with one cell blanked
OneBlank == {[Solution1 EXCEPT ![Cell(r, r)] = 0] : r \in 1..9}
\* Solution1 with four cells blanked that can be filled in two ways
Rectangles ==
    {[k \in 1..81 |-> IF k \in q THEN 0 ELSE Solution1[k]] :
        q \in {{Cell(1, 4), Cell(1, 5), Cell(4, 4), Cell(4, 5)},
               {Cell(2, 8), Cell(2, 9), Cell(7, 8), Cell(7, 9)},
               {Cell(3, 5), Cell(3, 6), Cell(6, 5), Cell(6, 6)}}}
NextDigit(d) == (d % 9) + 1
\* Solution1 with one cell changed: the new digit is twice in its row, column and box
WrongDigit ==
    {[Solution1 EXCEPT ![k] = NextDigit(@)] : k \in {Cell(1, 1), Cell(5, 5), Cell(9, 9)}}
\* the same with the three cells that held the new digit blanked: no two equal
\* clues in a unit, and no completion
WrongDigitNoDuplicate ==
    {[c \in 1..81 |->
        IF c = k THEN NextDigit(Solution1[k])
        ELSE IF SameUnit(c, k) /\ Solution1[c] = NextDigit(Solution1[k]) THEN 0
        ELSE Solution1[c]] : k \in {Cell(1, 1), Cell(5, 5), Cell(9, 9)}}
\* two clues on an otherwise blank grid: 5 at A1, then in its row, its column,
\* its box or in no unit of it either 5 again or the digit Solution1 has there
TwoClues ==
    {[k \in 1..81 |-> IF k = Cell(1, 1) THEN 5 ELSE IF k = be[1] THEN be[2] ELSE 0] :
        be \in {x \in {Cell(1, 5), Cell(5, 1), Cell(2, 2), Cell(5, 5)} \X (1..9) :
                   x[2] = 5 \/ x[2] = Solution1[x[1]]}}

InputGrids ==
    {ToGrid(flat) : flat \in {Easy, Hard, Unsolvable, Starved, AllBlank} \cup OneBlank
                              \cup Rectangles \cup WrongDigit
                              \cup WrongDigitNoDuplicate \cup TwoClues}

----------------------------------------------------------------------------
(* The solver in use: one SudokuSolver instance in one process, called for *)
(* each puzzle of a list in turn, as the drivers do.  An item of the list  *)
(* is the grid and the method called: 0 solve, 1                           *)
(* solve_with_cp_and_backtracking.                                         *)

Call(g, m) == [grid |-> g, method |-> m]

\* a call is followed for 2^Fuel steps of the machine
Fuel == 12
\* how many puzzles are solved before the last one
MaxWarmups == 1

\* the calls made before the call of interest, leaving counters behind
WarmupCalls == {Call(ToGrid(Easy), 0), Call(ToGrid(Unsolvable), 1)}
\* the calls made after others
FollowCalls ==
    {Call(ToGrid(flat), m) :
        flat \in {Easy, Unsolvable, [Solution1 EXCEPT ![Cell(1, 1)] = 0]}, m \in {0, 1}}

RECURSIVE WarmupLists(_)
WarmupLists(n) ==
    IF n = 0 THEN {}
    ELSE {<<w>> : w \in WarmupCalls} \cup
         {<<w>> \o l : w \in WarmupCalls, l \in WarmupLists(n - 1)}

Workloads ==
    {<<Call(g, 0)>> : g \in InputGrids} \cup
    {<<c>> : c \in FollowCalls} \cup
    {l \o <<c>> : l \in WarmupLists(MaxWarmups), c \in FollowCalls}

VARIABLES
    st,        \* the solver instance, and the machine running its current call
    puzzles,   \* the calls still to make
    grid,      \* the grid given to the current or last call
    method,    \* the method of the current or last call
    calls      \* how many calls the instance has served or begun
vars == <<st, puzzles, grid, method, calls>>

Init ==
    /\ st \in {NewSolver(seed) : seed \in Seeds}
    /\ puzzles \in Workloads
    /\ grid = NoGrid
    /\ method = 0
    /\ calls = 0

\* solver.solve(grid), the whole call
Solve ==
    /\ puzzles # <<>>
    /\ st.stack = <<>>
    /\ Head(puzzles).method = 0
    /\ st' = Run(solve(st, Head(puzzles).grid), Fuel)
    /\ grid' = Head(puzzles).grid
    /\ method' = 0
    /\ puzzles' = Tail(puzzles)
    /\ calls' = calls + 1

\* solver.solve_with_cp_and_backtracking(grid), the whole call
SolveWithCpAndBacktracking ==
    /\ puzzles # <<>>
    /\ st.stack = <<>>
    /\ Head(puzzles).method = 1
    /\ st' = Run(solve_with_cp_and_backtracking(st, Head(puzzles).grid), Fuel)
    /\ grid' = Head(puzzles).grid
    /\ method' = 1
    /\ puzzles' = Tail(puzzles)
    /\ calls' = calls + 1

Next == Solve \/ SolveWithCpAndBacktracking

Spec == Init /\ [][Next]_vars

----------------------------------------------------------------------------
(* The same solver followed call by call inside solve: a step is made by   *)
(* the innermost active call, which runs on until it calls, or returns.    *)

\* the calls followed step by step
StepWorkloads ==
    {<<Call(ToGrid(Easy), 0)>>,
     <<Call(ToGrid(Unsolvable), 1), Call(ToGrid(Hard), 0)>>,
     <<Call(ToGrid(Starved), 0)>>,
     <<Call(ToGrid(AllBlank), 0)>>} \cup
    {<<Call(ToGrid([AllBlank EXCEPT ![Cell(1, 1)] = 5, ![Cell(1, 5)] = 5]), m)>> :
        m \in {0, 1}}

\* the deepest nesting of calls that is followed
MaxDepth == 100

InitSteps ==
    /\ st \in {NewSolver(seed) : seed \in Seeds}
    /\ puzzles \in StepWorkloads
    /\ grid = NoGrid
    /\ method = 0
    /\ calls = 0

\* solver.solve(grid) is called and reaches propagate_constraints
CallSolve ==
    /\ puzzles # <<>>
    /\ st.stack = <<>>
    /\ Head(puzzles).method = 0
    /\ st' = solve(st, Head(puzzles).grid)
    /\ grid' = Head(puzzles).grid
    /\ method' = 0
    /\ puzzles' = Tail(puzzles)
    /\ calls' = calls + 1

\* solver.solve_with_cp_and_backtracking(grid) is called
CallSolveWithCpAndBacktracking ==
    /\ puzzles # <<>>
    /\ st.stack = <<>>
    /\ Head(puzzles).method = 1
    /\ st' = solve_with_cp_and_backtracking(st, Head(puzzles).grid)
    /\ grid' = Head(puzzles).grid
    /\ method' = 1
    /\ puzzles' = Tail(puzzles)
    /\ calls' = calls + 1

\* the innermost active call is at pc and may run on
Active(pc) ==
    /\ st.stack # <<>>
    /\ Len(st.stack) <= MaxDepth
    /\ Top(st).pc = pc

PropagateStep ==
    Active("propagate") /\ st' = propagate_constraints_loop(st)
                        /\ UNCHANGED <<puzzles, grid, method, calls>>
AssignStep ==
    Active("assign") /\ st' = assign_value_loop(st)
                     /\ UNCHANGED <<puzzles, grid, method, calls>>
PeersStep ==
    Active("peers") /\ st' = remove_value_peers(st)
                    /\ UNCHANGED <<puzzles, grid, method, calls>>
UnitsStep ==
    Active("units") /\ st' = remove_value_units(st)
                    /\ UNCHANGED <<puzzles, grid, method, calls>>
SearchStep ==
    Active("search") /\ st' = search_loop(st)
                     /\ UNCHANGED <<puzzles, grid, method, calls>>
SolveStep ==
    Active("solve") /\ st' = solve_resume(st)
                    /\ UNCHANGED <<puzzles, grid, method, calls>>

NextSteps ==
    \/ CallSolve
    \/ CallSolveWithCpAndBacktracking
    \/ PropagateStep
    \/ AssignStep
    \/ PeersStep
    \/ UnitsStep
    \/ SearchStep
    \/ SolveStep

\* the interpreter runs the program on while it can
SpecSteps == InitSteps /\ [][NextSteps]_vars /\ WF_vars(NextSteps)

----------------------------------------------------------------------------
(* The methods of the solver called one by one, each call whole:           *)
(* propagate_constraints on a fresh board, then either the same call again *)
(* on the board it returned, or assign_value on that board.                *)

CallGrids ==
    {ToGrid(flat) :
        flat \in {Easy, Hard, AllBlank, Starved,
                  [AllBlank EXCEPT ![Cell(1, 1)] = 5, ![Cell(1, 5)] = 5],
                  [AllBlank EXCEPT ![Cell(1, 1)] = 5, ![Cell(5, 5)] = 5],
                  [Solution2 EXCEPT ![Cell(9, 2)] = 0],
                  [Solution2 EXCEPT ![Cell(4, 7)] = 0]} \cup OneBlank \cup Rectangles}

\* the squares assign_value is called for: the one _search would branch on,
\* and two fixed ones
AssignSquares(board) ==
    {Sq(1, 1), Sq(5, 5)} \cup
    (IF Unsolved(board) = {} THEN {} ELSE {MinSquare(board)})

InitCalls ==
    /\ st \in {NewSolver(seed) : seed \in Seeds}
    /\ puzzles \in {<<Call(g, 2)>> : g \in CallGrids}
    /\ grid = NoGrid
    /\ method = 0
    /\ calls = 0

\* solver.propagate_constraints(puzzle, solver.generate_board())
Propagate ==
    /\ puzzles # <<>>
    /\ st.stack = <<>>
    /\ Head(puzzles).method = 2
    /\ st' = Run(call_propagate_constraints(st, Head(puzzles).grid), Fuel)
    /\ grid' = Head(puzzles).grid
    /\ method' = 2
    /\ puzzles' = Tail(puzzles)
    /\ calls' = calls + 1

\* solver.propagate_constraints(puzzle, board) on the board just returned
PropagateAgain ==
    /\ st.out = "board"
    /\ method = 2
    /\ st' = Run(call_propagate_constraints_again(st), Fuel)
    /\ method' = 3
    /\ calls' = calls + 1
    /\ UNCHANGED <<puzzles, grid>>

\* solver.assign_value(board, square, value) on the board just returned
Assign ==
    /\ st.out = "board"
    /\ method = 2
    /\ \E square \in AssignSquares(st.board), value \in SeqToSet(ALLOWED_NUMBERS) :
           st' = Run(call_assign_value(st, square, value), Fuel)
    /\ method' = 4
    /\ calls' = calls + 1
    /\ UNCHANGED <<puzzles, grid>>

NextCalls == Propagate \/ PropagateAgain \/ Assign

SpecCalls == InitCalls /\ [][NextCalls]_vars

----------------------------------------------------------------------------
(* The specification of sudoku_cp: the module is loaded, its __main__      *)
(* solves the puzzles of a workload one after the other, and every action  *)
(* is one step of the innermost active call.  method is 5 for these calls. *)

\* the puzzles given to the module
CpWorkloads ==
    {<<Call(ToGrid(g), 5)>> : g \in {Easy, Hard, Starved} \cup Rectangles} \cup
    {<<Call(ToGrid([AllBlank EXCEPT ![Cell(1, 1)] = 5, ![Cell(1, 5)] = 5]), 5),
       Call(ToGrid([Solution1 EXCEPT ![Cell(5, 5)] = 0]), 5)>>,
     \* a puzzle whose search ends in the ValueError of min(), and one after it
     <<Call(ToGrid([AllBlank EXCEPT ![Cell(1, 1)] = 5, ![Cell(5, 5)] = 5]), 5),
       Call(ToGrid(Easy), 5)>>}

InitCp ==
    /\ st \in {NewModule(seed) : seed \in Seeds}
    /\ puzzles \in CpWorkloads
    /\ grid = NoGrid
    /\ method = 5
    /\ calls = 0

\* __main__ takes the next puzzle and calls propagate_constraints; nothing in
\* __main__ catches the ValueError of depth_first_search, which ends the process
\* with the puzzles that are left unsolved
CallMain ==
    /\ puzzles # <<>>
    /\ st.stack = <<>>
    /\ st.out # "ValueError"
    /\ st' = cp_main(st, Head(puzzles).grid)
    /\ grid' = Head(puzzles).grid
    /\ method' = 5
    /\ puzzles' = Tail(puzzles)
    /\ calls' = calls + 1

CpPropagateStep ==
    Active("cp_propagate") /\ st' = cp_propagate_constraints_loop(st)
                           /\ UNCHANGED <<puzzles, grid, method, calls>>
CpAssignStep ==
    Active("cp_assign") /\ st' = cp_assign_value_loop(st)
                        /\ UNCHANGED <<puzzles, grid, method, calls>>
CpPeersStep ==
    Active("cp_peers") /\ st' = cp_remove_value_peers(st)
                       /\ UNCHANGED <<puzzles, grid, method, calls>>
CpUnitsStep ==
    Active("cp_units") /\ st' = cp_remove_value_units(st)
                       /\ UNCHANGED <<puzzles, grid, method, calls>>
DepthFirstSearchStep ==
    Active("dfs") /\ st' = depth_first_search_loop(st)
                  /\ UNCHANGED <<puzzles, grid, method, calls>>
CpMainStep ==
    Active("cp_main") /\ st' = cp_main_resume(st)
                      /\ UNCHANGED <<puzzles, grid, method, calls>>

NextCp ==
    \/ CallMain
    \/ CpPropagateStep
    \/ CpAssignStep
    \/ CpPeersStep
    \/ CpUnitsStep
    \/ DepthFirstSearchStep
    \/ CpMainStep

SpecCp == InitCp /\ [][NextCp]_vars

----------------------------------------------------------------------------
(* The specification of SudokuBacktracking: one instance solves the grids  *)
(* of a workload one after the other, as main of sudoku_backtracking does, *)
(* and every action is one step of the innermost active call of solve.     *)
(* method is 6 for these calls; grid is the grid as it was passed.         *)

\* Solution1 with the digit of its first cell changed, and that grid with
\* its centre blanked: clues with a duplicate
Repeated == [Solution1 EXCEPT ![Cell(1, 1)] = 3]
RepeatedOneBlank == [Repeated EXCEPT ![Cell(5, 5)] = 0]

BacktrackingGrids ==
    {Easy, Unsolvable, Starved, Repeated, RepeatedOneBlank,
     [Solution1 EXCEPT ![Cell(5, 5)] = 0], [Solution1 EXCEPT ![Cell(9, 9)] = 9]}
        \cup Rectangles

BacktrackingWorkloads ==
    {<<Call(ToGrid(g), 6)>> : g \in BacktrackingGrids} \cup
    {<<Call(ToGrid(Starved), 6), Call(ToGrid(g), 6)>> : g \in Rectangles}

InitBacktracking ==
    /\ st = NewBacktracking
    /\ puzzles \in BacktrackingWorkloads
    /\ grid = NoGrid
    /\ method = 6
    /\ calls = 0

\* solver.solve(grid) is called with the next grid
CallBacktrackingSolve ==
    /\ puzzles # <<>>
    /\ st.stack = <<>>
    /\ st' = call_backtracking_solve(st, Head(puzzles).grid)
    /\ grid' = Head(puzzles).grid
    /\ method' = 6
    /\ puzzles' = Tail(puzzles)
    /\ calls' = calls + 1

BacktrackingStep ==
    Active("bt") /\ st' = backtracking_solve_loop(st)
                 /\ UNCHANGED <<puzzles, grid, method, calls>>
BacktrackingReturn ==
    Active("bt_call") /\ st' = call_backtracking_resume(st)
                      /\ UNCHANGED <<puzzles, grid, method, calls>>

NextBacktracking ==
    \/ CallBacktrackingSolve
    \/ BacktrackingStep
    \/ BacktrackingReturn

SpecBacktracking == InitBacktracking /\ [][NextBacktracking]_vars

----------------------------------------------------------------------------
(* The specification of the benchmark drivers: main of sudoku_benchmark    *)
(* (method 7) and benchmark_algorithms of fill_missing_metrics_table       *)
(* (method 8) take the puzzles of a file one after the other and hand each *)
(* to three runs.  Every action is one statement of the loop, a run being  *)
(* a whole call.  The state is the SudokuBenchmark instance with its two   *)
(* solvers, the module sudoku_cp, the list puzzle the loop holds (the      *)
(* drivers pass this list itself to every run), and, to state properties,  *)
(* the grids that were handed to the runs (given) and what they returned   *)
(* (solved).  grid is the puzzle as it was loaded.                         *)

\* SudokuBenchmark()
NewBenchmark(seed) ==
    [seed |-> seed, backtracking_solver |-> NewBacktracking,
     optimized_solver |-> NewSolver(seed), sudoku_cp |-> NewModule(seed),
     puzzle |-> NoGrid, given |-> <<>>, solved |-> <<>>, out |-> "new", stack |-> <<>>]

\* solve_with_backtracking(grid), with the list puzzle for grid: the counters
\* are reset, solve fills the list in place
solve_with_backtracking(self) ==
    LET r == Run(call_backtracking_solve([self.backtracking_solver EXCEPT
                                              !.assignments = 0, !.backtracks = 0],
                                         self.puzzle), Fuel)
    IN  [self EXCEPT !.backtracking_solver = r,
                     !.puzzle = r.grid,
                     !.given = Append(@, self.puzzle),
                     !.solved = Append(@, r.out)]

\* solve_with_constraint_propagation(grid), with the list puzzle for grid; an
\* exception is caught and leaves solved at None
solve_with_constraint_propagation(self) ==
    LET r == Run(constraint_propagation_call(self.sudoku_cp, self.puzzle), Fuel)
    IN  [self EXCEPT !.sudoku_cp = r,
                     !.given = Append(@, self.puzzle),
                     !.solved = Append(@, IF r.out = "ValueError" THEN "None" ELSE r.out)]

\* solve_with_optimized(grid), with the list puzzle for grid
solve_with_optimized(self) ==
    LET r == Run(solve(self.optimized_solver, self.puzzle), Fuel)
    IN  [self EXCEPT !.optimized_solver = r,
                     !.given = Append(@, self.puzzle),
                     !.solved = Append(@, r.out)]

\* the puzzles of the files
BenchmarkGrids ==
    {Starved, Unsolvable, RepeatedOneBlank, Solution1,
     [Solution1 EXCEPT ![Cell(5, 5)] = 0], [Solution2 EXCEPT ![Cell(9, 2)] = 0]}
        \cup Rectangles

BenchmarkWorkloads ==
    {<<Call(ToGrid(g), m)>> : g \in BenchmarkGrids, m \in {7, 8}} \cup
    {<<Call(ToGrid(Starved), m), Call(ToGrid(g), m)>> : g \in Rectangles, m \in {7, 8}}

InitBenchmark ==
    /\ st \in {NewBenchmark(seed) : seed \in Seeds}
    /\ puzzles \in BenchmarkWorkloads
    /\ grid = NoGrid
    /\ method = 7
    /\ calls = 0

\* for puzzle in puzzles: the loop takes the next puzzle
TakePuzzle ==
    /\ puzzles # <<>>
    /\ st.puzzle = NoGrid \/ Len(st.given) = 3
    /\ st' = [st EXCEPT !.puzzle = Head(puzzles).grid, !.given = <<>>, !.solved = <<>>]
    /\ grid' = Head(puzzles).grid
    /\ method' = Head(puzzles).method
    /\ puzzles' = Tail(puzzles)
    /\ calls' = 0

\* benchmark.solve_with_backtracking(puzzle), the first run of both drivers
SolveWithBacktracking ==
    /\ st.puzzle # NoGrid
    /\ Len(st.given) = 0
    /\ st' = solve_with_backtracking(st)
    /\ calls' = calls + 1
    /\ UNCHANGED <<puzzles, grid, method>>

\* benchmark.solve_with_constraint_propagation(puzzle), the second run of main
SolveWithConstraintPropagation ==
    /\ method = 7
    /\ Len(st.given) = 1
    /\ st' = solve_with_constraint_propagation(st)
    /\ calls' = calls + 1
    /\ UNCHANGED <<puzzles, grid, method>>

\* benchmark.solve_with_optimized(puzzle): the third run of main, the second
\* and the third run of benchmark_algorithms
SolveWithOptimized ==
    /\ \/ method = 7 /\ Len(st.given) = 2
       \/ method = 8 /\ Len(st.given) \in {1, 2}
    /\ st' = solve_with_optimized(st)
    /\ calls' = calls + 1
    /\ UNCHANGED <<puzzles, grid, method>>

NextBenchmark ==
    \/ TakePuzzle
    \/ SolveWithBacktracking
    \/ SolveWithConstraintPropagation
    \/ SolveWithOptimized

SpecBenchmark == InitBenchmark /\ [][NextBenchmark]_vars

----------------------------------------------------------------------------
(* What a Sudoku solution is, stated on grids without the solver's topology *)

Digits == 1..9
Houses ==
    {{<<r, c>> : c \in 1..9} : r \in 1..9} \cup
    {{<<r, c>> : r \in 1..9} : c \in 1..9} \cup
    {{<<3 * br + i, 3 * bc + j>> : i \in 1..3, j \in 1..3} : br \in 0..2, bc \in 0..2}

\* every entry is a digit and every row, column and box holds each digit once
ValidSolution(g) ==
    /\ \A r \in 1..9, c \in 1..9 : g[r][c] \in Digits
    /\ \A h \in Houses, d \in Digits : Cardinality({p \in h : g[p[1]][p[2]] = d}) = 1

\* every clue of the grid is kept by g
KeepsClues(g, clues) ==
    \A r \in 1..9, c \in 1..9 : clues[r][c] # 0 => g[r][c] = clues[r][c]

\* two equal non-zero clues in one row, column or box
HasDuplicateClue(g) ==
    \E h \in Houses : \E p \in h, q \in h : p # q /\ g[p[1]][p[2]] # 0
                                           /\ g[p[1]][p[2]] = g[q[1]][q[2]]

Blanks(g) == {p \in (1..9) \X (1..9) : g[p[1]][p[2]] = 0}
FirstBlank(g) ==
    CHOOSE p \in Blanks(g) : \A q \in Blanks(g) : Cell(p[1], p[2]) <= Cell(q[1], q[2])
\* d is in no row, column or box of the cell p of g
Free(g, p, d) == \A h \in Houses : p \in h => \A q \in h : g[q[1]][q[2]] # d

\* g can be completed: by filling its first blank with a free digit, and so on
RECURSIVE Fillable(_)
Fillable(g) ==
    IF Blanks(g) = {} THEN TRUE
    ELSE LET p == FirstBlank(g)
         IN  \E d \in Digits : Free(g, p, d) /\ Fillable([g EXCEPT ![p[1]][p[2]] = d])

\* the grid has a valid completion: a known one, or one found by trying
Completable(g) ==
    /\ ~HasDuplicateClue(g)
    /\ \/ \E s \in {Solution1, Solution2} : KeepsClues(ToGrid(s), g)
       \/ Fillable(g)

\* the current call has ended
Done == st.out \in {"grid", "None", "ValueError"}

----------------------------------------------------------------------------
(* Claims *)

\* C1: whenever solve returns a grid, every entry of it is in 1..9 and every
\* row, column and 3x3 box contains each digit exactly once.
ValidOutputC1 == st.out = "grid" => ValidSolution(st.result)
\* a grid returned after guesses, some of which failed
WitnessC1 == st.out = "grid" /\ st.backtracks > 0 /\ Blanks(grid) # {}

\* C2: whenever solve returns a grid, every non-blank cell of the input holds
\* the same digit in the returned grid.
CluesKeptC2 == st.out = "grid" => KeepsClues(st.result, grid)
\* a grid returned for two clues, which is not the completion of the blank grid
WitnessC2 ==
    /\ st.out = "grid"
    /\ grid[1][1] = 5 /\ grid[5][1] = 4
    /\ Cardinality(Blanks(grid)) = 79

\* C3: a grid with two equal non-zero clues in one row, column or box makes
\* solve return None, as an ordinary return.
DuplicateFailsC3 == (Done /\ HasDuplicateClue(grid)) => st.out = "None"
\* None returned for two 5s in row A, in different columns and boxes
WitnessC3 ==
    /\ st.out = "None"
    /\ grid[1][1] = 5 /\ grid[1][5] = 5

\* C4: solve returns a grid for every grid that has a valid completion; it
\* returns None only when there is none (and it returns one or the other).
CompleteC4 ==
    Done => /\ st.out \in {"grid", "None"}
            /\ st.out = "None" => ~Completable(grid)
\* None returned after the search ran out of guesses, for clues without duplicate
WitnessC4 ==
    /\ st.out = "None"
    /\ ~HasDuplicateClue(grid)
    /\ st.backtracks > 1

\* the board holds a contradiction: a cell with no candidate, or a unit in
\* which some digit is a candidate of no cell
EmptyCell(board) == \E s \in DOMAIN board : board[s] = <<>>
StarvedUnit(board) ==
    \E u \in 1..Len(unit_list) : \E d \in Digits :
        \A k \in 1..Len(unit_list[u]) : ~Contains(board[unit_list[u][k]], d)
Contradictory(board) == EmptyCell(board) \/ StarvedUnit(board)

\* assign_value, remove_value or propagate_constraints has just returned
Propagation == {"assign_value", "remove_value", "propagate_constraints"}
Returned(ret) ==
    st.out = "running" /\ st.mode = "back" /\ st.last \in Propagation /\ st.ret = ret

\* C5: solve terminates on every grid: a call that is running always comes
\* to its end, returning a grid or None or raising.
TerminatesC5 == (st.out = "running") ~> Done
\* a call that has ended after guesses that failed in a cascade
WitnessC5 == Done /\ calls > 0 /\ st.backtracks > 2 /\ st.assignments > 81

\* C6: the outcome of solve and both counters are the same whatever order
\* the peers of a cell are visited in.
DeterminismC6 ==
    Done => \A seed \in Seeds :
                LET other == Run(Enter(NewSolver(seed), grid, method), Fuel)
                IN  /\ other.out = st.out
                    /\ other.result = st.result
                    /\ other.assignments = st.assignments
                    /\ other.backtracks = st.backtracks

\* C7: after any sequence of calls on one instance the two counters are those
\* the last puzzle alone gives on a fresh instance.
FreshCountsC7 ==
    (Done /\ calls > 1) =>
        LET fresh == Run(Enter(NewSolver(st.seed), grid, method), Fuel)
        IN  /\ st.assignments = fresh.assignments
            /\ st.backtracks = fresh.backtracks
\* a call that made no backtrack, after a call that made some
WitnessC7 == Done /\ calls > 1 /\ st.out = "grid" /\ st.backtracks = 0

\* C8: when assign_value, remove_value or propagate_constraints returns False
\* the board holds a contradiction; when one returns the board, no cell of it
\* is empty; and _search never takes the min of no squares.
ContradictionC8 ==
    /\ Returned(FALSE) => Contradictory(st.board)
    /\ Returned(TRUE) => ~EmptyCell(st.board)
    /\ st.out # "ValueError"
\* False returned for a unit with no place left for a digit, every cell still
\* having a candidate
WitnessC8 == Returned(FALSE) /\ ~EmptyCell(st.board) /\ StarvedUnit(st.board)

\* the squares, unit list, units and peers of one topology are well formed
WellFormed(sqs, ulist, us, ps) ==
    /\ Len(sqs) = 81 /\ Cardinality(SeqToSet(sqs)) = 81
    /\ Len(ulist) = 27 /\ Cardinality({SeqToSet(ulist[u]) : u \in 1..Len(ulist)}) = 27
    /\ \A u \in 1..Len(ulist) :
           Len(ulist[u]) = 9 /\ Cardinality(SeqToSet(ulist[u])) = 9
    /\ \A s \in SeqToSet(sqs) :
           /\ Len(us[s]) = 3
           /\ Cardinality({u \in 1..Len(ulist) : Contains(ulist[u], s)}) = 3
           /\ Cardinality(ps[s]) = 20
           /\ ps[s] = UNION {SeqToSet(us[s][k]) : k \in 1..Len(us[s])} \ {s}
           /\ s \notin ps[s]
           /\ \A t \in ps[s] : s \in ps[t]

\* C9: 81 cells, 27 units of 9 distinct cells, 3 units and 20 peers for every
\* cell, the peers being the union of its units without the cell itself, and
\* the peer relation symmetric, in SudokuSolver (whose instance visits just
\* these peers, each once) and in sudoku_cp.
TopologyC9 ==
    /\ WellFormed(squares, unit_list, units, peers)
    /\ \A s \in SeqToSet(squares) :
           /\ Len(PeerIter(st.seed, s)) = 20
           /\ SeqToSet(PeerIter(st.seed, s)) = peers[s]
    /\ WellFormed(SQUARES, UNIT_LIST, UNITS, PEERS)
\* the solver has run on this topology, where the peers of A1 and of F5 are
\* those the unit test of sudoku_cp lists
WitnessC9 ==
    /\ st.out = "grid"
    /\ peers[Sq(1, 1)] = {Sq(1, c) : c \in 2..9} \cup {Sq(r, 1) : r \in 2..9}
                             \cup {Sq(2, 2), Sq(2, 3), Sq(3, 2), Sq(3, 3)}
    /\ PEERS[Sq(6, 5)] = {Sq(6, c) : c \in (1..9) \ {5}} \cup {Sq(r, 5) : r \in (1..9) \ {6}}
                             \cup {Sq(4, 4), Sq(4, 6), Sq(5, 4), Sq(5, 6)}

\* the three units of square s in the order row, column, box
RowColumnBox(us, s) ==
    /\ Len(us) = 3
    /\ \A k \in 1..3 : Len(us[k]) = 9
    /\ \A k \in 1..9 : /\ RowOf(us[1][k]) = RowOf(s)
                       /\ ColOf(us[2][k]) = ColOf(s)
                       /\ BoxOf(us[3][k]) = BoxOf(s)

\* C10: for every cell of a board, units(cell) lists the row, then the column,
\* then the box of the cell,
\* in SudokuSolver.units and in the UNITS of sudoku_cp.
UnitsOrderC10 ==
    \A s \in DOMAIN st.board : RowColumnBox(units[s], s) /\ RowColumnBox(UNITS[s], s)

\* every cell of the board is solved and holds the digit the grid g has there
BoardIs(board, g) ==
    \A r \in 1..9, c \in 1..9 : board[Cell(r, c)] = <<g[r][c]>>

\* a method called by itself has returned
Returns(m, out) == method = m /\ st.out = out

\* C11: propagate_constraints called again with the same puzzle on the board
\* it returned succeeds, leaves every candidate set as it was and adds no
\* backtrack.
IdempotentC11 ==
    [][PropagateAgain => /\ st'.out = "board"
                         /\ st'.board = st.board
                         /\ st'.backtracks = st.backtracks]_vars
\* the second call has returned a board that still has unsolved cells
WitnessC11 == Returns(3, "board") /\ Unsolved(st.board) # {}

\* g is a valid solution but for one blank cell; Filled(g) is that solution
OneBlanked(g) ==
    /\ Cardinality(Blanks(g)) = 1
    /\ \E d \in Digits :
           LET p == FirstBlank(g) IN ValidSolution([g EXCEPT ![p[1]][p[2]] = d])
Filled(g) ==
    LET p == FirstBlank(g)
    IN  [g EXCEPT ![p[1]][p[2]] = CHOOSE d \in Digits : Free(g, p, d)]

\* C12: for a valid solution with one cell blanked, propagate_constraints
\* alone gives a board whose cells are all solved and equal to the solution,
\* and solve returns it with the backtracks counter at 0.
OneBlankC12 ==
    (method = 2 /\ st.out \in {"board", "False"} /\ OneBlanked(grid)) =>
        /\ st.out = "board"
        /\ BoardIs(st.board, Filled(grid))
        /\ LET s == Run(solve(NewSolver(st.seed), grid), Fuel)
           IN  s.out = "grid" /\ s.result = Filled(grid) /\ s.backtracks = 0
\* propagate_constraints has returned for a solution with its centre blanked
WitnessC12 == Returns(2, "board") /\ OneBlanked(grid) /\ grid[5][5] = 0

\* C13: solve never modifies the grid passed to it: when it has returned, a
\* solution or None, the caller's list holds what it held before the call.
GridKeptC13 == Done => st.grid = grid
\* solve has returned a solution for a grid with blanks, which are still blank
WitnessC13 == st.out = "grid" /\ method = 0 /\ Cardinality(Blanks(st.grid)) > 40

\* the active _search calls, as positions of the stack
SearchFrames(stack) == {n \in 1..Len(stack) : stack[n].pc = "search"}
\* _search, the innermost active call, calls assign_value in this step
Trial ==
    /\ st.stack # <<>> /\ Top(st).pc = "search"
    /\ Len(st'.stack) = Len(st.stack) + 1
    /\ Top(st').pc = "assign"

\* C14: the board given to a _search call keeps its candidate sets for as
\* long as the call is active, and every trial assignment of the call starts
\* from a board with just these candidate sets.
SearchCopiesC14 ==
    [][/\ \A n \in SearchFrames(st.stack) \cap SearchFrames(st'.stack) :
              st'.stack[n].board = st.stack[n].board
       /\ Trial => st'.board = Top(st).board]_vars
\* a later trial assignment of a _search call has just started, after one
\* that failed, on the candidate sets the call was given
WitnessC14 ==
    /\ Len(st.stack) > 1
    /\ Top(st).pc = "assign" /\ st.mode = "go"
    /\ st.stack[Len(st.stack) - 1].pc = "search"
    /\ st.stack[Len(st.stack) - 1].i > 1
    /\ st.backtracks > 0
    /\ st.board = st.stack[Len(st.stack) - 1].board

\* C15: in sudoku_cp.depth_first_search every trial guess after the first
\* starts from a board whose candidate sets are those the call was entered
\* with.
SiblingBoardsC15 ==
    (/\ Len(st.stack) > 1
     /\ Top(st).pc = "cp_propagate" /\ st.mode = "go" /\ Top(st).i = 1
     /\ st.stack[Len(st.stack) - 1].pc = "dfs"
     /\ st.stack[Len(st.stack) - 1].i > 1)
    => st.board = st.stack[Len(st.stack) - 1].board

\* the board sudoku_cp returned, as a grid
CpGrid(board) == [r \in 1..9 |-> [c \in 1..9 |-> board[Sq(r, c)][1]]]

\* C16: for a puzzle with a valid completion sudoku_cp's
\* depth_first_search(propagate_constraints(puzzle, generate_board()))
\* returns a board of 81 single digits that keeps the clues and is a valid
\* solution; it returns False only for a puzzle with no valid completion.
CpSolvesC16 ==
    (method = 5 /\ calls > 0 /\ st.out # "running") =>
        /\ Completable(grid) => st.out = "board"
        /\ st.out = "board" =>
               /\ \A s \in DOMAIN st.result : Len(st.result[s]) = 1
               /\ KeepsClues(CpGrid(st.result), grid)
               /\ ValidSolution(CpGrid(st.result))
        /\ st.out = "False" => ~Completable(grid)

\* C17: the _search calls of one solve are never nested deeper than 81 (the
\* innermost one may be a call that returns at once, which has no frame), and
\* every nested call has strictly fewer unsolved cells than the call that
\* made it (stated of the two innermost calls: any two nested calls were the
\* two innermost when the inner one was entered).
DepthC17 ==
    LET fs == SearchFrames(st.stack)
        Innermost(S) == CHOOSE n \in S : \A m \in S : m <= n
    IN  /\ Cardinality(fs) + 1 <= 81
        /\ Cardinality(fs) > 1 =>
               LET n == Innermost(fs)
                   m == Innermost(fs \ {n})
                   inner == Unsolved(st.stack[n].board)
                   outer == Unsolved(st.stack[m].board)
               IN  inner \subseteq outer /\ inner # outer
\* twenty _search calls nested, on a grid that had no clue
WitnessC17 == Cardinality(SearchFrames(st.stack)) >= 20 /\ Blanks(grid) = (1..9) \X (1..9)

\* C18: when assign_value(board, cell, digit) returns the board, the candidate
\* set of cell is exactly digit; when digit is not a candidate of cell at the
\* call, it returns False.
AssignC18 ==
    [][(method' = 4 /\ calls' = calls + 1) =>
          LET cell == st'.arg[1]
              digit == st'.arg[2]
          IN  /\ st'.out \in {"board", "False"}
              /\ st'.out = "board" => st'.board[cell] = <<digit>>
              /\ ~Contains(st.board[cell], digit) => st'.out = "False"]_vars
\* assign_value has returned the board for a cell that was unsolved before,
\* and other cells still are
WitnessC18 ==
    /\ Returns(4, "board")
    /\ grid[1][1] # 0 /\ grid[5][5] # 0
    /\ st.arg[1] \notin {Sq(1, 1), Sq(5, 5)}
    /\ st.board[st.arg[1]] = <<st.arg[2]>>
    /\ Unsolved(st.board) # {}

\* the cells of the grid, as squares, that are blank in it
BlankSquares(g) == {Cell(p[1], p[2]) : p \in Blanks(g)}
\* the cells of a row, a column or a box, as squares
HouseSquares == {{Cell(p[1], p[2]) : p \in h} : h \in Houses}

\* C19: on every board propagate_constraints or a top-level assign_value
\* returns, the digit of a cell with one candidate is a candidate of none of
\* the 20 peers of the cell.
NakedSingleC19 ==
    st.out = "board" =>
        \A s \in 1..81 :
            Len(st.board[s]) = 1 =>
                \A p \in 1..81 :
                    (p # s /\ SameUnit(s, p)) => ~Contains(st.board[p], st.board[s][1])
\* assign_value has returned a board on which a cell that had no clue is
\* solved and others are not
WitnessC19 ==
    /\ Returns(4, "board")
    /\ Unsolved(st.board) # {}
    /\ \E s \in BlankSquares(grid) : Len(st.board[s]) = 1 /\ s # st.arg[1]

\* C20: on every such board every digit is a candidate of some cell of every
\* unit, and where it is a candidate of one cell only, that cell is solved.
HiddenSingleC20 ==
    st.out = "board" =>
        \A h \in HouseSquares, d \in Digits :
            LET places == {s \in h : Contains(st.board[s], d)}
            IN  /\ places # {}
                /\ Cardinality(places) = 1 => \A s \in places : st.board[s] = <<d>>
\* propagate_constraints has returned a board with unsolved cells on which a
\* cell that had no clue is the one place of its digit in a unit
WitnessC20 ==
    /\ Returns(2, "board")
    /\ Unsolved(st.board) # {}
    /\ \E s \in BlankSquares(grid) : Len(st.board[s]) = 1

\* the guesses of the _search calls that are active: the digit each call
\* has assigned to its square and not yet given up
Guesses(stack) == {n \in SearchFrames(stack) : stack[n].phase # ""}
\* the clues of the current grid and every active guess agree with the
\* solution S
AgreesWith(S) ==
    /\ KeepsClues(ToGrid(S), grid)
    /\ \A n \in Guesses(st.stack) :
           st.stack[n].list[st.stack[n].i] = S[st.stack[n].square]

\* a solution is on its way back to solve: the guesses that led to it are
\* no longer active
Found == st.mode = "back" /\ st.last = "_search" /\ st.ret

\* C21: while the clues and every guess that led to the board agree with a
\* valid solution, the digit of the solution is a candidate of every cell of
\* the board, and no assign_value, remove_value or propagate_constraints call
\* has returned False.  (The three solutions are constants: that they are
\* valid is checked where the instance is new.)
SoundC21 ==
    \A S \in {Solution1, Solution2, Solution3} :
        /\ st.out = "new" => ValidSolution(ToGrid(S))
        /\ (st.out = "running" /\ ~Found /\ AgreesWith(S)) =>
               /\ \A s \in DOMAIN st.board : Contains(st.board[s], S[s])
               /\ ~Returned(FALSE)
\* a cascade is running for the second of two nested guesses that agree with
\* a solution, after other guesses have failed
WitnessC21 ==
    /\ st.out = "running"
    /\ \E S \in {Solution1, Solution2, Solution3} : AgreesWith(S)
    /\ Cardinality(Guesses(st.stack)) >= 2
    /\ st.backtracks > 0
    /\ Top(st).pc = "peers"

\* a candidate string: digits of 1..9 in strictly increasing order
Increasing(str) ==
    \A k \in 1..Len(str) : str[k] \in 1..9 /\ (k > 1 => str[k - 1] < str[k])
\* the innermost active call is assign_value, remove_value or
\* propagate_constraints
InPropagation ==
    st.stack # <<>> /\ Top(st).pc \in {"propagate", "assign", "peers", "units"}

\* C22: every step of an assign_value or remove_value call, whether the call
\* succeeds or fails, leaves every cell with a subset of the candidates it
\* had, and every candidate string is a strictly increasing sequence of
\* digits of 1..9.
ShrinkC22 ==
    [][InPropagation =>
          \A s \in DOMAIN st.board :
              /\ SeqToSet(st'.board[s]) \subseteq SeqToSet(st.board[s])
              /\ Increasing(st'.board[s])]_vars
\* an assign_value call has failed and has left a board with a cell emptied,
\* cells solved and cells with some of their candidates removed
WitnessC22 ==
    /\ Returned(FALSE) /\ st.last = "assign_value"
    /\ EmptyCell(st.board)
    /\ \E s \in DOMAIN st.board : Len(st.board[s]) \in 2..8
    /\ \E s \in DOMAIN st.board : Len(st.board[s]) = 1

\* the place of a cell in the fixed cell order A1, A2, ..., I9
CellIndex(s) == CHOOSE k \in 1..Len(squares) : squares[k] = s
\* the innermost _search call that has chosen a cell
Innermost(stack) ==
    CHOOSE n \in SearchFrames(stack) : \A m \in SearchFrames(stack) : m <= n

\* C23: the cell a _search call branches on has more than one candidate on
\* the board the call was given, no unsolved cell of that board has fewer
\* candidates, and no unsolved cell with as many comes before it in the cell
\* order; the digits the call tries are the candidates of that cell (stated
\* of the innermost call: every call was the innermost when it chose).
BranchCellC23 ==
    SearchFrames(st.stack) # {} =>
        LET f == st.stack[Innermost(st.stack)]
        IN  /\ Len(f.board[f.square]) > 1
            /\ f.list = f.board[f.square]
            /\ \A t \in DOMAIN f.board :
                   Len(f.board[t]) > 1 =>
                       /\ Len(f.board[f.square]) <= Len(f.board[t])
                       /\ Len(f.board[t]) = Len(f.board[f.square]) =>
                              CellIndex(f.square) <= CellIndex(t)
\* a call has chosen a cell that is not the first unsolved one, tied with a
\* later cell, on a board where cells have more candidates than it
WitnessC23 ==
    /\ SearchFrames(st.stack) # {}
    /\ LET f == st.stack[Innermost(st.stack)]
       IN  /\ \E t \in DOMAIN f.board :
                  /\ CellIndex(t) < CellIndex(f.square)
                  /\ Len(f.board[t]) > Len(f.board[f.square])
           /\ \E t \in DOMAIN f.board :
                  /\ CellIndex(t) > CellIndex(f.square)
                  /\ Len(f.board[t]) = Len(f.board[f.square])

\* C24: a _search call tries the candidates of its cell one after the other
\* in increasing order of the digits; and from the moment a _search call has
\* returned a solution no assign_value call is made, the board is left as it
\* is, and the call of solve ends by returning this board as a grid.
FirstSolutionC24 ==
    [][/\ Trial =>
              LET n == Len(st.stack)
                  f == Top(st)
              IN  /\ Increasing(f.list)
                  /\ st'.stack[n].i = IF f.phase = "" THEN 1 ELSE f.i + 1
                  /\ Top(st').value = f.list[st'.stack[n].i]
       /\ (st.out = "running" /\ Found) =>
              /\ st'.assignments = st.assignments
              /\ st'.board = st.board
              /\ Len(st'.stack) < Len(st.stack)
              /\ \/ st'.out = "running" /\ st'.mode = "back" /\ st'.last = "_search"
                                        /\ st'.ret
                 \/ st'.out = "grid" /\ st'.result = BoardToGrid(st.board)]_vars
\* a solution found after failed guesses is on its way back through nested
\* _search calls that have candidates left to try
WitnessC24 ==
    /\ st.out = "running" /\ Found
    /\ st.backtracks > 0
    /\ Cardinality(SearchFrames(st.stack)) >= 2
    /\ \E n \in SearchFrames(st.stack) : st.stack[n].i < Len(st.stack[n].list)

\* assign_value is called in this step: a frame of it is new on the stack
AssignCalled ==
    /\ Len(st'.stack) = Len(st.stack) + 1
    /\ Top(st').pc = "assign"

\* C25: assignments is 0 when solve starts, goes up by one in every step
\* that calls assign_value and is unchanged in every other step of the solve,
\* whatever the call returns later; and every assign_value call is made for a
\* non-blank clue by propagate_constraints, for the one place left to a digit
\* in a unit by remove_value, or for a guess by _search.
CountedC25 ==
    [][/\ (st.out # "running" /\ st'.out = "running") => st'.assignments = 0
       /\ st.out = "running" =>
              /\ st'.assignments = st.assignments + (IF AssignCalled THEN 1 ELSE 0)
              /\ AssignCalled =>
                     LET f == Top(st)
                         a == Top(st')
                     IN  \/ /\ f.pc = "propagate"
                            /\ a.value = grid[RowOf(a.square)][ColOf(a.square)]
                            /\ a.value \in 1..9
                         \/ /\ f.pc = "units"
                            /\ a.value = f.value
                            /\ \E k \in 1..Len(units[f.square]) :
                                   Places(st.board, units[f.square][k], f.value)
                                       = <<a.square>>
                         \/ /\ f.pc = "search"
                            /\ a.square = f.square
                            /\ Contains(f.board[f.square], a.value)]_vars
\* a solve has ended after assignments for clues, for forced digits and for
\* guesses, some of which failed
WitnessC25 ==
    /\ st.out = "grid"
    /\ st.backtracks > 0
    /\ st.assignments > 81 - Cardinality(Blanks(grid)) + st.backtracks

\* the assign_value call on top of the stack, followed on its own until it
\* returns to its caller
Outcome(s) == Run([s EXCEPT !.stack = <<CallFrame, Top(s)>>], Fuel)
\* a failure is on its way up through the calls of a cascade
Unwinding ==
    /\ st.stack # <<>> /\ Top(st).pc \in {"assign", "peers", "units"}
    /\ st.mode = "back" /\ ~st.ret

\* C26: an assign_value call made by _search for a guess or by
\* propagate_constraints for a clue raises backtracks by exactly 1 when it
\* returns False and leaves it unchanged when it returns the board; and in
\* the steps of the solve, backtracks changes only by 1 and only in the step
\* in which a contradiction is found, never while the failure is passed up.
OncePerFailureC26 ==
    [][st.out = "running" =>
          /\ (AssignCalled /\ Top(st).pc \in {"search", "propagate"}) =>
                 LET r == Outcome(st')
                 IN  /\ r.out \in {"board", "False"}
                     /\ r.out = "False" => r.backtracks = st.backtracks + 1
                     /\ r.out = "board" => r.backtracks = st.backtracks
          /\ st'.backtracks \in {st.backtracks, st.backtracks + 1}
          /\ st'.backtracks # st.backtracks =>
                 ~Unwinding /\ st'.mode = "back" /\ ~st'.ret
          /\ Unwinding =>
                 /\ st'.mode = "back" /\ ~st'.ret
                 /\ Len(st'.stack) = Len(st.stack) - 1]_vars
\* the failure of a guess is found four or more calls deep in its cascade
WitnessC26 ==
    /\ Returned(FALSE)
    /\ SearchFrames(st.stack) # {}
    /\ st.stack[Innermost(st.stack)].phase = "assign"
    /\ Len(st.stack) - Innermost(st.stack) >= 4

\* the clue of the grid at the k-th cell of the cell order
ClueAt(k) == grid[RowOf(CellIndex(squares[k]))][ColOf(CellIndex(squares[k]))]
\* the call made by the innermost active call has returned False to it
FailedTo(pc) ==
    st.stack # <<>> /\ Top(st).pc = pc /\ st.mode = "back" /\ ~st.ret

\* C27: propagate_constraints assigns the clues in cell order, passing over
\* none; when an assignment returns False it returns False in its next step
\* with no further assignment; and solve, given this False, ends with None
\* without a _search call that guesses and without any further assignment.
FirstFailureC27 ==
    [][st.out = "running" =>
          /\ (AssignCalled /\ Top(st).pc = "propagate") =>
                 LET j == st'.stack[Len(st.stack)].i
                 IN  /\ j >= Position(st)
                     /\ Top(st').square = squares[j]
                     /\ Top(st').value = ClueAt(j)
                     /\ \A k \in Position(st)..(j - 1) : ClueAt(k) = 0
          /\ FailedTo("propagate") =>
                 /\ st'.stack = Pop(st.stack)
                 /\ st'.mode = "back" /\ ~st'.ret
                 /\ st'.last = "propagate_constraints"
                 /\ st'.assignments = st.assignments
          /\ FailedTo("solve") =>
                 /\ st'.assignments = st.assignments
                 /\ SearchFrames(st'.stack) = {}
                 /\ \/ st'.out = "None"
                    \/ st'.out = "running" /\ st'.stack = <<[Top(st) EXCEPT !.phase = "search"]>>
                                           /\ st'.mode = "back" /\ ~st'.ret]_vars
\* the assignment of a clue has failed after others succeeded and with
\* clues still to come
WitnessC27 ==
    /\ st.out = "running" /\ FailedTo("propagate")
    /\ Top(st).i > 1
    /\ st.assignments > 3
    /\ \E k \in (Top(st).i + 1)..81 : ClueAt(k) # 0

\* C28: when SudokuBacktracking.solve returns True, the grid it filled has
\* no blank cell, keeps every clue of the grid as it was passed, and has
\* every digit once in every row, column and box.
BacktrackingValidC28 ==
    (method = 6 /\ st.out = "True") =>
        /\ Blanks(st.grid) = {}
        /\ KeepsClues(st.grid, grid)
        /\ ValidSolution(st.grid)

\* the active calls of SudokuBacktracking.solve that have an empty location
BacktrackingFrames(stack) == {n \in 1..Len(stack) : stack[n].pc = "bt"}

\* C29: when SudokuBacktracking.solve returns False the grid is as it was
\* passed; and whenever a nested call of solve has returned False, the grid
\* is the grid as it was passed but for the cells of the calls still active,
\* each of which holds the number its call is trying.
RestoredC29 ==
    /\ (method = 6 /\ st.out = "False") => st.grid = grid
    /\ (method = 6 /\ st.out = "running" /\ st.mode = "back" /\ ~st.ret) =>
           \A r \in 1..9, c \in 1..9 :
               LET at == {n \in BacktrackingFrames(st.stack) :
                             st.stack[n].list = <<r - 1, c - 1>>}
               IN  IF at = {} THEN st.grid[r][c] = grid[r][c]
                   ELSE \A n \in at : st.grid[r][c] = st.stack[n].i /\ grid[r][c] = 0
\* False is returned for a grid with blank cells after trials that failed
WitnessC29 ==
    /\ method = 6 /\ st.out = "False"
    /\ st.backtracks > 10
    /\ Cardinality(Blanks(grid)) > 10

\* C30: every run made for a puzzle by the benchmark drivers is handed a
\* grid equal to the puzzle as it was loaded, that is to the grid handed to
\* the first run before it started.
OriginalCluesC30 ==
    method \in {7, 8} =>
        \A k \in 1..Len(st.given) : st.given[k] = grid

====
